---------------------------- MODULE Spec2Model ----------------------------
(***************************************************************************)
(* A model of the scheduling core of the marketing-automation backend:     *)
(*   src/backend/campaign_timeline_optimizer.py                            *)
(*   src/backend/content_distribution_scheduler.py                         *)
(*   src/backend/outreach_call_scheduler.py                                *)
(*                                                                         *)
(* Conventions.                                                            *)
(*  - A date string "YYYY-MM-DD" is the tuple <<y, m, d>>: the string is   *)
(*    zero padded and of fixed width, so the order of the strings is the   *)
(*    lexicographic order of the tuples.  A datetime is its day number     *)
(*    (ToOrdinal), counted from 2025-01-01 = 1.                            *)
(*  - A dict is a record (a function on strings); d.get(k, default) is     *)
(*    Get(d, k, default).                                                  *)
(*  - A call either returns or raises: Returned(v) or Raised(e).           *)
(*  - Scores that the code keeps as floats in steps of 0.1 are kept in     *)
(*    tenths.                                                              *)
(***************************************************************************)
EXTENDS Integers, Sequences, FiniteSets, TLC

VARIABLES
    svc,               \* the function the caller invokes
    request,           \* its request object
    pc,                \* position inside the invoked function
    planner_response,  \* what agent.run(...) produced for this request
    data,              \* the parsed planner output, or the fallback's, awaiting processing
    result,            \* what the invoked function returned or raised
    content_matching,  \* match_content_to_timeline: the dict being filled
    used_image_ids,    \* match_content_to_timeline: ids already handed out
    slot_index,        \* match_content_to_timeline: slots consumed so far
    fb_site,           \* create_fallback_call_schedule: the call site it returns to
    fb_leads,          \* create_fallback_call_schedule: prioritized_leads
    current_date,      \* create_fallback_call_schedule: day number of the walk
    lead_index,        \* create_fallback_call_schedule: next lead to place
    call_schedule      \* create_fallback_call_schedule: items built so far

vars == <<svc, request, pc, planner_response, data, result, content_matching,
          used_image_ids, slot_index, fb_site, fb_leads, current_date, lead_index,
          call_schedule>>

matchVars == <<content_matching, used_image_ids, slot_index>>
callVars == <<fb_site, fb_leads, current_date, lead_index, call_schedule>>

-----------------------------------------------------------------------------
(* Generic helpers *)

Min(a, b) == IF a <= b THEN a ELSE b
Max(a, b) == IF a >= b THEN a ELSE b

\* Python's int(a / b) for b > 0: the quotient truncated toward zero.
Trunc(a, b) == IF a >= 0 THEN a \div b ELSE 0 - ((0 - a) \div b)

Get(d, k, default) == IF k \in DOMAIN d THEN d[k] ELSE default

Contains(seq, x) == \E i \in 1..Len(seq) : seq[i] = x

NoResult == [kind |-> "none"]
Returned(v) == [kind |-> "returned", value |-> v]
Raised(e) == [kind |-> "raised", error |-> e]

-----------------------------------------------------------------------------
(* Text: str.lower() and the substring test "a in b" *)

Alphabet ==
    [upper |-> <<"A", "B", "C", "D", "E", "F", "G", "H", "I", "J", "K", "L", "M",
                 "N", "O", "P", "Q", "R", "S", "T", "U", "V", "W", "X", "Y", "Z">>,
     lower |-> <<"a", "b", "c", "d", "e", "f", "g", "h", "i", "j", "k", "l", "m",
                 "n", "o", "p", "q", "r", "s", "t", "u", "v", "w", "x", "y", "z">>]

\* The characters of each string the model's inputs and the code's literals use.
Spelling ==
    ("Instagram" :> <<"I", "n", "s", "t", "a", "g", "r", "a", "m">>) @@
    ("Facebook Page" :> <<"F", "a", "c", "e", "b", "o", "o", "k", " ", "P", "a", "g", "e">>) @@
    ("LinkedIn" :> <<"L", "i", "n", "k", "e", "d", "I", "n">>) @@
    ("instagram" :> <<"i", "n", "s", "t", "a", "g", "r", "a", "m">>) @@
    ("facebook" :> <<"f", "a", "c", "e", "b", "o", "o", "k">>) @@
    ("Social_Caption" :> <<"S", "o", "c", "i", "a", "l", "_", "C", "a", "p", "t", "i", "o", "n">>) @@
    ("blog_post" :> <<"b", "l", "o", "g", "_", "p", "o", "s", "t">>) @@
    ("general" :> <<"g", "e", "n", "e", "r", "a", "l">>) @@
    ("social_caption" :> <<"s", "o", "c", "i", "a", "l", "_", "c", "a", "p", "t", "i", "o", "n">>) @@
    ("ad_copy" :> <<"a", "d", "_", "c", "o", "p", "y">>) @@
    ("video" :> <<"v", "i", "d", "e", "o">>) @@
    ("social_1" :> <<"s", "o", "c", "i", "a", "l", "_", "1">>) @@
    ("headline_2" :> <<"h", "e", "a", "d", "l", "i", "n", "e", "_", "2">>) @@
    ("copy_003" :> <<"c", "o", "p", "y", "_", "0", "0", "3">>) @@
    ("social" :> <<"s", "o", "c", "i", "a", "l">>) @@
    ("caption" :> <<"c", "a", "p", "t", "i", "o", "n">>) @@
    ("ad" :> <<"a", "d">>) @@
    ("blog" :> <<"b", "l", "o", "g">>) @@
    ("email" :> <<"e", "m", "a", "i", "l">>) @@
    ("educational" :> <<"e", "d", "u", "c", "a", "t", "i", "o", "n", "a", "l">>) @@
    ("Technology" :> <<"T", "e", "c", "h", "n", "o", "l", "o", "g", "y">>) @@
    ("FinTech" :> <<"F", "i", "n", "T", "e", "c", "h">>) @@
    ("Healthcare" :> <<"H", "e", "a", "l", "t", "h", "c", "a", "r", "e">>) @@
    ("technology" :> <<"t", "e", "c", "h", "n", "o", "l", "o", "g", "y">>) @@
    ("Finance" :> <<"F", "i", "n", "a", "n", "c", "e">>) @@
    ("Retail" :> <<"R", "e", "t", "a", "i", "l">>) @@
    ("tech" :> <<"t", "e", "c", "h">>) @@
    ("Sales Manager" :> <<"S", "a", "l", "e", "s", " ", "M", "a", "n", "a", "g", "e", "r">>) @@
    ("CTO" :> <<"C", "T", "O">>) @@
    ("Analyst" :> <<"A", "n", "a", "l", "y", "s", "t">>) @@
    ("Enterprise" :> <<"E", "n", "t", "e", "r", "p", "r", "i", "s", "e">>) @@
    ("Small" :> <<"S", "m", "a", "l", "l">>) @@
    ("Medium" :> <<"M", "e", "d", "i", "u", "m">>) @@
    ("software" :> <<"s", "o", "f", "t", "w", "a", "r", "e">>) @@
    ("cto" :> <<"c", "t", "o">>) @@
    ("vp" :> <<"v", "p">>) @@
    ("healthcare" :> <<"h", "e", "a", "l", "t", "h", "c", "a", "r", "e">>) @@
    ("finance" :> <<"f", "i", "n", "a", "n", "c", "e">>) @@
    ("banking" :> <<"b", "a", "n", "k", "i", "n", "g">>) @@
    ("retail" :> <<"r", "e", "t", "a", "i", "l">>) @@
    ("ecommerce" :> <<"e", "c", "o", "m", "m", "e", "r", "c", "e">>) @@
    ("manufacturing" :> <<"m", "a", "n", "u", "f", "a", "c", "t", "u", "r", "i", "n", "g">>) @@
    ("enterprise" :> <<"e", "n", "t", "e", "r", "p", "r", "i", "s", "e">>) @@
    ("large" :> <<"l", "a", "r", "g", "e">>) @@
    ("small" :> <<"s", "m", "a", "l", "l">>) @@
    ("startup" :> <<"s", "t", "a", "r", "t", "u", "p">>) @@
    ("ceo" :> <<"c", "e", "o">>) @@
    ("president" :> <<"p", "r", "e", "s", "i", "d", "e", "n", "t">>) @@
    ("manager" :> <<"m", "a", "n", "a", "g", "e", "r">>) @@
    ("director" :> <<"d", "i", "r", "e", "c", "t", "o", "r">>) @@
    ("linkedin" :> <<"l", "i", "n", "k", "e", "d", "i", "n">>) @@
    ("Plain copy" :> <<"P", "l", "a", "i", "n", " ", "c", "o", "p", "y">>) @@
    ("Social copy" :> <<"S", "o", "c", "i", "a", "l", " ", "c", "o", "p", "y">>) @@
    ("Ad copy" :> <<"A", "d", " ", "c", "o", "p", "y">>)

LowerChar(c) ==
    IF \E i \in 1..26 : Alphabet.upper[i] = c
    THEN Alphabet.lower[CHOOSE i \in 1..26 : Alphabet.upper[i] = c]
    ELSE c

\* s.lower(), as characters
Lower(s) == [i \in 1..Len(Spelling[s]) |-> LowerChar(Spelling[s][i])]

\* "w in t" for character sequences
IsSubstring(w, t) ==
    \E i \in 0..(Len(t) - Len(w)) : SubSeq(t, i + 1, i + Len(w)) = w

\* word in s.lower(), word a literal of the code
InLower(word, s) == IsSubstring(Spelling[word], Lower(s))

-----------------------------------------------------------------------------
(* Dates: datetime.strptime, strftime, timedelta *)

DaysInMonth(y, m) ==
    LET leap == (y % 4 = 0) /\ ((y % 100 # 0) \/ (y % 400 = 0))
    IN  IF m = 2 THEN (IF leap THEN 29 ELSE 28)
        ELSE IF m \in {4, 6, 9, 11} THEN 30 ELSE 31

\* strptime(s, "%Y-%m-%d") raises ValueError unless s is a calendar date.
WellFormed(s) ==
    /\ s[2] \in 1..12
    /\ s[3] \in 1..DaysInMonth(s[1], s[2])

RECURSIVE DaysBeforeMonth(_, _)
DaysBeforeMonth(y, m) ==
    IF m <= 1 THEN 0 ELSE DaysBeforeMonth(y, m - 1) + DaysInMonth(y, m - 1)

RECURSIVE DaysBeforeYear(_)
DaysBeforeYear(y) ==
    IF y <= 2025 THEN 0 ELSE DaysBeforeYear(y - 1) + DaysBeforeMonth(y - 1, 13)

\* strptime of a well-formed date string: its day number.
ToOrdinal(s) == DaysBeforeYear(s[1]) + DaysBeforeMonth(s[1], s[2]) + s[3]

RECURSIVE DateFrom(_, _, _)
DateFrom(y, m, n) ==
    IF n > DaysInMonth(y, m)
    THEN (IF m = 12 THEN DateFrom(y + 1, 1, n - DaysInMonth(y, m))
                    ELSE DateFrom(y, m + 1, n - DaysInMonth(y, m)))
    ELSE <<y, m, n>>

\* strftime("%Y-%m-%d") of a day number.
FromOrdinal(n) == DateFrom(2025, 1, n)

\* a < b on date strings.
DateStrLess(a, b) ==
    \/ a[1] < b[1]
    \/ a[1] = b[1] /\ a[2] < b[2]
    \/ a[1] = b[1] /\ a[2] = b[2] /\ a[3] < b[3]

-----------------------------------------------------------------------------
(* campaign_timeline_optimizer.py: create_fallback_timeline *)

SlotCap == 20

\* (end_date - start_date).days + 1
TotalDays(req) ==
    ToOrdinal(req.campaign_duration.end_date)
        - ToOrdinal(req.campaign_duration.start_date) + 1

\* Twice posts_per_week, which the code keeps in halves:
\* avg_posts_per_day * 7, capped at 5 when min_posts_per_day >= 1, else at 3.
PostsPerWeek2(req) ==
    LET mn == req.posting_frequency.min_posts_per_day
        mx == req.posting_frequency.max_posts_per_day
        twice == (mn + mx) * 7
    IN  IF mn >= 1 THEN Min(twice, 2 * 5) ELSE Min(twice, 2 * 3)

\* min_slots without the two extra slots.
MinSlotsMutant(req) == Len(req.key_dates)

\* min_slots = len(request.key_dates) + 2
MinSlots(req) == Len(req.key_dates) + 2

\* max_slots = min(20, total_days)
MaxSlots(req) == Min(SlotCap, TotalDays(req))

\* The clamp taken the other way round: min(max(min_slots, .), max_slots).
TotalSlotsNeededMutant(req) ==
    LET raw == Trunc(TotalDays(req) * PostsPerWeek2(req), 2 * 7)
    IN  Min(Max(MinSlots(req), raw), MaxSlots(req))

\* int(weeks_in_campaign * posts_per_week), then max(min_slots, min(., max_slots))
TotalSlotsNeeded(req) ==
    LET raw == Trunc(TotalDays(req) * PostsPerWeek2(req), 2 * 7)
    IN  Max(MinSlots(req), Min(raw, MaxSlots(req)))

\* A map in which the first key date of a date is kept.
KeyDatePriorityMutant(key_dates, date_str) ==
    LET at == {i \in 1..Len(key_dates) : key_dates[i].date = date_str}
    IN  IF at = {} THEN <<"medium">>
        ELSE key_dates[CHOOSE i \in at : \A j \in at : i <= j].priority

\* key_dates_map.get(date_str, ["medium"]): a later key date of the same date
\* overwrites an earlier one.
KeyDatePriority(key_dates, date_str) ==
    LET at == {i \in 1..Len(key_dates) : key_dates[i].date = date_str}
    IN  IF at = {} THEN <<"medium">>
        ELSE key_dates[CHOOSE i \in at : \A j \in at : j <= i].priority

\* day_offset counted from slot_id instead of slot_id - 1.
DayOffsetMutant(slot_id, total_days, total_slots) ==
    Trunc(slot_id * total_days, total_slots)

\* int((slot_id - 1) * total_days / total_slots_needed)
DayOffset(slot_id, total_days, total_slots) ==
    Trunc((slot_id - 1) * total_days, total_slots)

\* Offsets counted back from the end of the window instead of from its start.
ScheduledDayMutant(req, slot_id) ==
    LET start == ToOrdinal(req.campaign_duration.start_date)
        end == ToOrdinal(req.campaign_duration.end_date)
        day == start + TotalDays(req)
                   - DayOffset(slot_id, TotalDays(req), TotalSlotsNeeded(req))
    IN  IF day > end THEN end ELSE day

\* The day of slot slot_id, kept from passing end_date.
ScheduledDay(req, slot_id) ==
    LET start == ToOrdinal(req.campaign_duration.start_date)
        end == ToOrdinal(req.campaign_duration.end_date)
        day == start + DayOffset(slot_id, TotalDays(req), TotalSlotsNeeded(req))
    IN  IF day > end THEN end ELSE day

\* f"slot_{slot_id:03d}": the prefix and the three digits.
SlotName(prefix, n) == <<prefix, n \div 100, (n \div 10) % 10, n % 10>>

\* One pass of the loop body: lists are indexed from 0 in the code, from 1 here.
FallbackSlot(req, slot_id) ==
    LET inv == req.content_inventory
        segs == req.audience_segments
        times == req.optimal_posting_times.time_slots
        content_item == inv[(slot_id % Len(inv)) + 1]
        audience_segment == segs[(slot_id % Len(segs)) + 1]
        date_str == FromOrdinal(ScheduledDay(req, slot_id))
    IN  [timeline_slot_id |-> SlotName("slot_", slot_id),
         scheduled_date |-> date_str,
         content_type |-> content_item.content_type,
         platform |-> content_item.platform,
         target_segment |-> audience_segment,
         priority |-> KeyDatePriority(req.key_dates, date_str),
         optimal_time |-> times[(slot_id % Len(times)) + 1],
         reasoning |-> <<"Distributed slot", slot_id, audience_segment, date_str>>]

RECURSIVE InsertByDate(_, _)
InsertByDate(sorted, x) ==
    IF sorted = <<>> THEN <<x>>
    ELSE IF DateStrLess(x.scheduled_date, Head(sorted).scheduled_date)
         THEN <<x>> \o sorted
         ELSE <<Head(sorted)>> \o InsertByDate(Tail(sorted), x)

\* list.sort(key=lambda x: x["scheduled_date"]): stable, by the date string.
RECURSIVE SortByDate(_)
SortByDate(slots) ==
    IF slots = <<>> THEN <<>>
    ELSE InsertByDate(SortByDate(SubSeq(slots, 1, Len(slots) - 1)), slots[Len(slots)])

\* The counting dicts platform_distribution and audience_coverage.
Distribution(slots, key) ==
    [v \in {Get(slots[i], key, "unknown") : i \in 1..Len(slots)} |->
        Cardinality({i \in 1..Len(slots) : Get(slots[i], key, "unknown") = v})]

HighPriorityCount(slots) ==
    Cardinality({i \in 1..Len(slots) : Contains(Get(slots[i], "priority", <<>>), "high")})

create_fallback_timeline(req) ==
    IF \/ ~WellFormed(req.campaign_duration.start_date)
       \/ ~WellFormed(req.campaign_duration.end_date)
    THEN Raised("ValueError")
    ELSE IF TotalSlotsNeeded(req) < 1
    THEN Returned([optimized_timeline |-> <<>>,
                   timeline_insights |->
                       [total_slots |-> 0,
                        high_priority_slots |-> 0,
                        platform_distribution |-> <<>>,
                        audience_coverage |-> <<>>,
                        engagement_prediction |-> "Well-distributed timeline with strategic spacing"]])
    ELSE IF \/ Len(req.content_inventory) = 0
            \/ Len(req.audience_segments) = 0
            \/ Len(req.optimal_posting_times.time_slots) = 0
    THEN Raised("ZeroDivisionError")
    ELSE LET timeline_slots ==
                 SortByDate([slot_id \in 1..TotalSlotsNeeded(req) |->
                                 FallbackSlot(req, slot_id)])
         IN  Returned([optimized_timeline |-> timeline_slots,
                       timeline_insights |->
                           [total_slots |-> Len(timeline_slots),
                            high_priority_slots |-> HighPriorityCount(timeline_slots),
                            platform_distribution |-> Distribution(timeline_slots, "platform"),
                            audience_coverage |-> Distribution(timeline_slots, "target_segment"),
                            engagement_prediction |-> "Well-distributed timeline with strategic spacing"]])

-----------------------------------------------------------------------------
(* Requests handed to create_fallback_timeline *)

MaxKeyDates == 2
MaxPosts == 1

\* Campaign windows: one day, a few days, a month, across the year's end,
\* inverted ones, and an end_date that is no calendar date.
StartDates == {<<2025, 12, 1>>, <<2025, 12, 31>>}
EndDates == {<<2025, 11, 30>>, <<2025, 12, 1>>, <<2025, 12, 11>>, <<2025, 12, 31>>,
             <<2026, 1, 1>>, <<2026, 1, 20>>, <<2025, 2, 30>>}

KeyDateLists ==
    LET KeyDateChoices ==
            {[date |-> <<2025, 12, 1>>, event |-> "Launch", priority |-> <<"high">>],
             [date |-> <<2025, 12, 1>>, event |-> "Teaser", priority |-> <<"low">>],
             [date |-> <<2025, 12, 31>>, event |-> "New Year's Eve",
              priority |-> <<"high">>]}
    IN  UNION {[1..n -> KeyDateChoices] : n \in 0..MaxKeyDates}

\* content_inventory, audience_segments and time_slots: each empty or not.
Inventories ==
    LET ItemSocial == [content_id |-> "content_001", content_type |-> "social_caption",
                       platform |-> "Instagram"]
        ItemAd == [content_id |-> "content_002", content_type |-> "ad_copy",
                   platform |-> "LinkedIn"]
    IN  {<<>>, <<ItemSocial>>, <<ItemSocial, ItemAd>>}

ListChoices ==
    Inventories \X {<<>>, <<"millennials", "professionals">>}
                \X {<<>>, <<"09:00", "18:00">>}

TimelineRequest(start, end, inv, segs, times, mn, mx, keys) ==
    [campaign_duration |-> [start_date |-> start, end_date |-> end],
     content_inventory |-> inv,
     audience_segments |-> segs,
     optimal_posting_times |-> [platform |-> "Instagram", time_slots |-> times],
     posting_frequency |-> [min_posts_per_day |-> mn, max_posts_per_day |-> mx],
     key_dates |-> keys,
     budget_constraints |-> [daily_budget |-> 100]]

BuilderRequests ==
    {TimelineRequest(w[1], w[2], l[1], l[2], l[3], f[1], f[2], keys) :
        w \in StartDates \X EndDates,
        l \in ListChoices,
        f \in ((0 - 1)..MaxPosts) \X ((0 - 1)..MaxPosts),
        keys \in KeyDateLists}

\* The inputs the spec calls valid: well-formed dates, start_date <= end_date,
\* non-empty content_inventory, audience_segments and time_slots.
ValidTimelineRequest(req) ==
    /\ WellFormed(req.campaign_duration.start_date)
    /\ WellFormed(req.campaign_duration.end_date)
    /\ TotalDays(req) >= 1
    /\ Len(req.content_inventory) > 0
    /\ Len(req.audience_segments) > 0
    /\ Len(req.optimal_posting_times.time_slots) > 0

IdleMatch ==
    /\ content_matching = [matched_slots |-> <<>>, unmatched_slots |-> <<>>]
    /\ used_image_ids = {}
    /\ slot_index = 0

IdleCalls ==
    /\ fb_site = "none"
    /\ fb_leads = <<>>
    /\ current_date = 0
    /\ lead_index = 0
    /\ call_schedule = <<>>

InitBuilder ==
    /\ svc = "create_fallback_timeline"
    /\ request \in BuilderRequests
    /\ pc = "start"
    /\ planner_response = NoResult
    /\ data = NoResult
    /\ result = NoResult
    /\ IdleMatch
    /\ IdleCalls

\* A direct call of create_fallback_timeline(request, {}, {}).
CallCreateFallbackTimeline ==
    /\ svc = "create_fallback_timeline"
    /\ pc = "start"
    /\ result' = create_fallback_timeline(request)
    /\ pc' = "done"
    /\ UNCHANGED <<svc, request, planner_response, data, matchVars, callVars>>

SpecBuilder == InitBuilder /\ [][CallCreateFallbackTimeline]_vars

\* The call of a service has ended.
Done(service) == svc = service /\ pc = "done"

\* The day numbers of the returned slots, in the returned order.
ReturnedDays == [i \in 1..Len(result.value.optimized_timeline) |->
                    ToOrdinal(result.value.optimized_timeline[i].scheduled_date)]

(* C1: for every valid request, the number of slots create_fallback_timeline
   returns lies between min(len(key_dates) + 2, total_days) and
   min(20, total_days). *)
C1_SlotCountBounds ==
    (Done("create_fallback_timeline") /\ ValidTimelineRequest(request)) =>
        /\ result.kind = "returned"
        /\ LET total_slots == Len(result.value.optimized_timeline)
           IN  /\ Min(Len(request.key_dates) + 2, TotalDays(request)) <= total_slots
               /\ total_slots <= Min(20, TotalDays(request))

(* C2: for every valid request, adjacent slots of the returned (date-sorted)
   list are floor(total_days / total_slots) or ceil(total_days / total_slots)
   days apart. *)
C2_EvenSpacing ==
    (Done("create_fallback_timeline") /\ ValidTimelineRequest(request)) =>
        /\ result.kind = "returned"
        /\ LET n == Len(result.value.optimized_timeline)
               lo == TotalDays(request) \div n
               hi == (TotalDays(request) + n - 1) \div n
           IN  \A i \in 1..(n - 1) :
                   ReturnedDays[i + 1] - ReturnedDays[i] \in {lo, hi}

\* A valid request whose timeline shows both gaps, the floor and the ceiling.
C2_Witness ==
    /\ Done("create_fallback_timeline") /\ ValidTimelineRequest(request)
    /\ result.kind = "returned"
    /\ LET n == Len(result.value.optimized_timeline)
           lo == TotalDays(request) \div n
       IN  /\ n >= 3
           /\ \E i \in 1..(n - 1) : ReturnedDays[i + 1] - ReturnedDays[i] = lo
           /\ \E i \in 1..(n - 1) : ReturnedDays[i + 1] - ReturnedDays[i] = lo + 1

(* C10: create_fallback_timeline raises whenever content_inventory or
   audience_segments is empty, whatever the window, the frequency and the
   key dates; it never returns a timeline then. *)
C10_EmptyInputRaises ==
    (Done("create_fallback_timeline") /\ (Len(request.content_inventory) = 0
                         \/ Len(request.audience_segments) = 0)) =>
        result.kind = "raised"

\* Well-formed dates and content, no audience segment: the loop's first pass
\* divides by len(audience_segments).
C10_Witness ==
    /\ Done("create_fallback_timeline")
    /\ Len(request.audience_segments) = 0
    /\ Len(request.content_inventory) > 0
    /\ WellFormed(request.campaign_duration.end_date)
    /\ result = Raised("ZeroDivisionError")

-----------------------------------------------------------------------------
(* content_distribution_scheduler.py: match_content_to_timeline *)

\* Optional[List[...]]: None, or a list.
None == [some |-> FALSE]
Some(list) == [some |-> TRUE, list |-> list]

\* list(images) if images else []
AvailableImages(images) == IF images.some THEN images.list ELSE <<>>

\* The pool copy_pools[key]; "general" is the whole list.
CopyPool(copies, key) ==
    CASE key = "social_caption" ->
            SelectSeq(copies, LAMBDA c : InLower("social", c.copy_id)
                                           \/ InLower("caption", c.copy_id))
      [] key = "ad_copy" -> SelectSeq(copies, LAMBDA c : InLower("ad", c.copy_id))
      [] key = "blog_post" -> SelectSeq(copies, LAMBDA c : InLower("blog", c.copy_id))
      [] key = "email" -> SelectSeq(copies, LAMBDA c : InLower("email", c.copy_id))
      [] key = "educational" ->
            SelectSeq(copies, LAMBDA c : InLower("educational", c.copy_id))
      [] key = "general" -> copies

PoolKeys == {"social_caption", "ad_copy", "blog_post", "email", "educational", "general"}

\* A draw without the general pool behind the pool of the content type.
CopyDrawMutant(copies, slot) ==
    LET keys == {k \in PoolKeys : Spelling[k] = Lower(slot.content_type)}
        own == IF keys = {} THEN <<>> ELSE CopyPool(copies, CHOOSE k \in keys : TRUE)
    IN  IF own # <<>> THEN [pool |-> own, score |-> 4]
        ELSE [pool |-> <<>>, score |-> 0]

\* The copies random.choice draws from for a slot, and the score the draw adds
\* (in tenths): the pool of the slot's content type, else the general pool.
CopyDraw(copies, slot) ==
    LET keys == {k \in PoolKeys : Spelling[k] = Lower(slot.content_type)}
        own == IF keys = {} THEN <<>> ELSE CopyPool(copies, CHOOSE k \in keys : TRUE)
    IN  IF own # <<>> THEN [pool |-> own, score |-> 4]
        ELSE IF copies # <<>> THEN [pool |-> copies, score |-> 2]
        ELSE [pool |-> <<>>, score |-> 0]

\* max_images that is 2 on every platform.
MaxImagesForMutant(platform) == 2

\* max_images: 2 for a platform naming instagram or facebook, else 1
MaxImagesFor(platform) ==
    IF InLower("instagram", platform) \/ InLower("facebook", platform) THEN 2 ELSE 1

\* unused_images without the filter on used_image_ids.
UnusedImagesMutant(available, used) == available

\* unused_images: the images whose id is not in used_image_ids
UnusedImages(available, used) ==
    SelectSeq(available, LAMBDA img : img.image_id \notin used)

\* A cycle that always restarts at the first image.
CycleStartMutant(matched_slots, n) == 0

\* cycle_count % len(available_images), cycle_count the matched slots so far
\* that hold at least one image
CycleStart(matched_slots, n) ==
    Cardinality({i \in 1..Len(matched_slots) :
                    matched_slots[i].assigned_images # <<>>}) % n

\* The images one slot gets.
AssignedImages(available, used, matched_slots, platform) ==
    LET max_images == MaxImagesFor(platform)
        unused == UnusedImages(available, used)
    IN  IF available = <<>> THEN <<>>
        ELSE IF unused # <<>>
        THEN SubSeq(unused, 1, Min(max_images, Len(unused)))
        ELSE IF Cardinality(used) >= Len(available)
        THEN LET start_index == CycleStart(matched_slots, Len(available))
             IN  [i \in 1..Min(max_images, Len(available)) |->
                     available[((start_index + i - 1) % Len(available)) + 1]]
        ELSE SubSeq(available, 1, Min(max_images, Len(available)))

\* used_image_ids after the slot: only images taken as unused are added.
UsedAfter(available, used, assigned) ==
    IF UnusedImages(available, used) # <<>>
    THEN used \cup {assigned[i].image_id : i \in 1..Len(assigned)}
    ELSE used

EmptyMatching(copies, images) ==
    [matched_slots |-> <<>>,
     unmatched_slots |-> <<>>,
     content_utilization |->
         [copies_used |-> 0,
          images_used |-> 0,
          total_copies |-> Len(copies),
          total_images |-> IF images.some /\ images.list # <<>>
                           THEN Len(images.list) ELSE 0]]

\* A loop body without the else: the matched slot goes to unmatched_slots too.
MatchWithCopyMutant(cm, slot, assigned_copy, copy_score, assigned_images) ==
    [cm EXCEPT
        !.matched_slots =
            Append(@, [slot |-> slot,
                       assigned_copy |-> assigned_copy,
                       assigned_images |-> assigned_images,
                       matching_score |->
                           copy_score + (IF assigned_images # <<>> THEN 3 ELSE 0)]),
        !.unmatched_slots = Append(@, slot),
        !.content_utilization.copies_used = @ + 1,
        !.content_utilization.images_used = @ + Len(assigned_images)]

\* The loop body for one slot that was given assigned_copy.
MatchWithCopy(cm, slot, assigned_copy, copy_score, assigned_images) ==
    [cm EXCEPT
        !.matched_slots =
            Append(@, [slot |-> slot,
                       assigned_copy |-> assigned_copy,
                       assigned_images |-> assigned_images,
                       matching_score |->
                           copy_score + (IF assigned_images # <<>> THEN 3 ELSE 0)]),
        !.content_utilization.copies_used = @ + 1,
        !.content_utilization.images_used = @ + Len(assigned_images)]

\* One pass of "for slot in timeline_slots".
MatchSlot ==
    /\ pc = "matching"
    /\ slot_index < Len(request.optimized_timeline)
    /\ LET slot == request.optimized_timeline[slot_index + 1]
           draw == CopyDraw(request.generated_copies, slot)
           available == AvailableImages(request.generated_images)
           assigned_images ==
               AssignedImages(available, used_image_ids,
                              content_matching.matched_slots, slot.platform)
       IN  /\ used_image_ids' = UsedAfter(available, used_image_ids, assigned_images)
           /\ \/ /\ draw.pool = <<>>
                 /\ content_matching' =
                        [content_matching EXCEPT !.unmatched_slots = Append(@, slot)]
              \/ \E c \in 1..Len(draw.pool) :
                     content_matching' =
                         MatchWithCopy(content_matching, slot, draw.pool[c],
                                       draw.score, assigned_images)
    /\ slot_index' = slot_index + 1
    /\ UNCHANGED <<svc, request, pc, planner_response, data, result, callVars>>

\* return content_matching, to a direct caller.
MatchReturn ==
    /\ svc = "match_content_to_timeline"
    /\ pc = "matching"
    /\ slot_index = Len(request.optimized_timeline)
    /\ result' = Returned(content_matching)
    /\ pc' = "done"
    /\ UNCHANGED <<svc, request, planner_response, data, matchVars, callVars>>

-----------------------------------------------------------------------------
(* Requests handed to match_content_to_timeline *)

MaxTimelineSlots == 4
MaxImages == 3

\* Platform and content type of a slot: two images allowed and a typed pool,
\* one image allowed and a typed pool, two images allowed and the general pool.
SlotKinds ==
    {[platform |-> "Instagram", content_type |-> "Social_Caption"],
     [platform |-> "LinkedIn", content_type |-> "ad_copy"],
     [platform |-> "Facebook Page", content_type |-> "video"]}

TimelineSlotOf(kind, i) ==
    [timeline_slot_id |-> SlotName("slot_", i),
     scheduled_date |-> <<2025, 12, i>>,
     content_type |-> kind.content_type,
     platform |-> kind.platform,
     target_segment |-> "millennials",
     priority |-> <<"medium">>,
     optimal_time |-> "09:00",
     reasoning |-> <<"planned", i>>]

Timelines ==
    UNION {{[i \in 1..n |-> TimelineSlotOf(kinds[i], i)] : kinds \in [1..n -> SlotKinds]} :
              n \in 0..MaxTimelineSlots}

CopyOf(id, text) ==
    [copy_id |-> id, copy_text |-> text, word_count |-> 2,
     hashtags |-> <<"launch">>, emojis |-> <<>>]

CopyLists ==
    {<<>>,
     <<CopyOf("copy_003", "Plain copy")>>,
     <<CopyOf("social_1", "Social copy"), CopyOf("headline_2", "Ad copy")>>}

ImageOf(i) == [image_id |-> <<"img_", i>>, image_url |-> <<"https://cdn/", i>>,
               metadata |-> <<>>]

\* Absent, empty, one to MaxImages images of distinct ids, and a pool in which
\* two images share an id.
ImagePools ==
    {None}
        \cup {Some([i \in 1..n |-> ImageOf(i)]) : n \in 0..MaxImages}
        \cup {Some(<<ImageOf(1), [ImageOf(1) EXCEPT !.image_url = <<"https://cdn/", 0>>]>>)}

DistinctIds(images) ==
    \A i, j \in 1..Len(images) : images[i].image_id = images[j].image_id => i = j

MatchRequests ==
    [optimized_timeline : Timelines,
     generated_copies : CopyLists,
     generated_images : ImagePools]

InitMatch ==
    /\ svc = "match_content_to_timeline"
    /\ request \in MatchRequests
    /\ pc = "matching"
    /\ planner_response = NoResult
    /\ data = NoResult
    /\ result = NoResult
    /\ content_matching = EmptyMatching(request.generated_copies, request.generated_images)
    /\ used_image_ids = {}
    /\ slot_index = 0
    /\ IdleCalls

NextMatch == MatchSlot \/ MatchReturn

SpecMatch == InitMatch /\ [][NextMatch]_vars

Matching == svc \in {"match_content_to_timeline", "schedule_content_distribution"}

\* The image ids of the first k matched slots, and of the first j images of
\* the slot after them: what was handed out before that slot's image j + 1.
IdsBefore(matched_slots, k, j) ==
    UNION {{matched_slots[a].assigned_images[b].image_id :
                b \in 1..Len(matched_slots[a].assigned_images)} : a \in 1..(k - 1)}
        \cup {matched_slots[k].assigned_images[b].image_id : b \in 1..j}

PoolIds == {AvailableImages(request.generated_images)[i].image_id :
               i \in 1..Len(AvailableImages(request.generated_images))}

(* C3: with distinct image ids, no image is assigned to a slot for a second
   time while some image of the pool has not been assigned to any slot. *)
C3_UseOnceThenCycle ==
    (Matching /\ DistinctIds(AvailableImages(request.generated_images))) =>
        LET ms == content_matching.matched_slots
        IN  \A k \in 1..Len(ms) :
                \A j \in 1..Len(ms[k].assigned_images) :
                    ms[k].assigned_images[j].image_id \in IdsBefore(ms, k, j - 1)
                        => PoolIds \subseteq IdsBefore(ms, k, j - 1)

\* A pool of at least two distinct images of which one has been assigned twice,
\* on a timeline with a slot that takes two images.
C3_Witness ==
    /\ svc = "match_content_to_timeline"
    /\ DistinctIds(AvailableImages(request.generated_images))
    /\ Len(AvailableImages(request.generated_images)) >= 2
    /\ LET ms == content_matching.matched_slots
       IN  /\ \E k \in 1..Len(ms) : Len(ms[k].assigned_images) = 2
           /\ \E k \in 1..Len(ms) :
                  \E j \in 1..Len(ms[k].assigned_images) :
                      ms[k].assigned_images[j].image_id \in IdsBefore(ms, k, j - 1)

\* The precondition of C4: N >= 1 images of distinct ids, a non-empty copy
\* list, M > N slots, each on a platform that takes one image.
OneImageRun ==
    /\ svc = "match_content_to_timeline"
    /\ pc = "done"
    /\ DistinctIds(AvailableImages(request.generated_images))
    /\ Len(AvailableImages(request.generated_images)) >= 1
    /\ request.generated_copies # <<>>
    /\ Len(request.optimized_timeline) > Len(AvailableImages(request.generated_images))
    /\ \A i \in 1..Len(request.optimized_timeline) :
           ~InLower("instagram", request.optimized_timeline[i].platform)
           /\ ~InLower("facebook", request.optimized_timeline[i].platform)

(* C4: N >= 1 distinct images, a non-empty copy list and M > N one-image
   slots: slot k (0-based) gets the image at index k mod N, so the first N
   slots get the N images in pool order, and every image is used at least
   floor(M/N) and at most ceil(M/N) times. *)
C4_CycleInPoolOrder ==
    OneImageRun =>
        LET images == AvailableImages(request.generated_images)
            N == Len(images)
            M == Len(request.optimized_timeline)
            ms == result.value.matched_slots
        IN  /\ Len(ms) = M
            /\ \A k \in 0..(M - 1) :
                   ms[k + 1].assigned_images = <<images[(k % N) + 1]>>
            /\ \A i \in 1..N :
                   LET uses == Cardinality({k \in 1..M :
                                   Contains(ms[k].assigned_images, images[i])})
                   IN  uses >= M \div N /\ uses <= (M + N - 1) \div N

\* Two images, four one-image slots: the cycle has restarted and advanced.
C4_Witness ==
    /\ OneImageRun
    /\ Len(AvailableImages(request.generated_images)) = 2
    /\ Len(request.optimized_timeline) = 4
    /\ result.value.matched_slots[4].assigned_images = <<ImageOf(2)>>

-----------------------------------------------------------------------------
(* The planner: agent.run(prompt) and json.loads(response.content) *)

\* What json.loads may make of response.content when it is a JSON object, for
\* each service.
PlannerObjects ==
    LET PlannedSlot == [timeline_slot_id |-> "slot_1",
                        scheduled_date |-> <<2025, 12, 1>>,
                        content_type |-> "social_caption",
                        platform |-> "Instagram",
                        target_segment |-> "millennials",
                        priority |-> <<"high">>,
                        optimal_time |-> "09:00"]
        PlannedLateSlot == [timeline_slot_id |-> "slot_2",
                            scheduled_date |-> <<2025, 12, 9>>,
                            content_type |-> "ad_copy",
                            platform |-> "LinkedIn",
                            target_segment |-> "professionals",
                            priority |-> <<"medium">>,
                            optimal_time |-> "21:00"]
        PlannedSparseSlot == [scheduled_date |-> <<2025, 12, 5>>]
        PlannedBadDateSlot == [scheduled_date |-> <<2025, 2, 30>>,
                               platform |-> "Instagram"]
        PlannedUndatedSlot == [timeline_slot_id |-> "slot_1", platform |-> "Instagram"]
        PlannedInsights == [engagement_prediction |-> "Strong holiday engagement"]
        PlannedPost == [schedule_item_id |-> "post_001",
                        scheduled_datetime |-> <<(<<2025, 12, 1>>), "09:00">>,
                        platform |-> "Instagram",
                        content_package |-> [copy_id |-> "copy_003",
                                             copy_text |-> Spelling["Plain copy"],
                                             asset_ids |-> <<>>,
                                             asset_urls |-> <<>>],
                        posting_parameters |-> [hashtags |-> <<"launch">>]]
        PlannedCall == [schedule_id |-> "call_001",
                        lead_id |-> "lead_001",
                        scheduled_datetime |-> <<(<<2025, 12, 1>>), (<<9, 0>>)>>,
                        expected_duration |-> 30,
                        priority_level |-> "high"]
    IN  [optimize_campaign_timeline |->
             {[optimized_timeline |-> <<PlannedSlot, PlannedLateSlot>>,
               timeline_insights |-> PlannedInsights],
              [optimized_timeline |-> <<PlannedSparseSlot, PlannedBadDateSlot>>],
              [optimized_timeline |-> <<PlannedSlot, PlannedUndatedSlot>>],
              [optimized_timeline |-> <<>>],
              [timeline_insights |-> PlannedInsights]},
         schedule_content_distribution |->
             {[distribution_schedule |-> <<PlannedPost>>,
               schedule_summary |-> [total_posts |-> 1]],
              [schedule_summary |-> [total_posts |-> 0]]},
         schedule_outreach_calls |->
             {[call_schedule |-> <<PlannedCall>>,
               schedule_summary |-> [total_calls_scheduled |-> 1]],
              [call_schedule |-> <<>>]}]

\* What agent.run(prompt) may do: raise; return content that json.loads rejects
\* (JSONDecodeError); return content None (TypeError); return JSON that is no
\* object; return a JSON object.
PlannerResponses ==
    {Raised("PlannerError"),
     Returned([content |-> "text", json |-> FALSE]),
     Returned([content |-> "none", json |-> FALSE]),
     Returned([content |-> "text", json |-> TRUE, is_dict |-> FALSE])}
        \cup {Returned([content |-> "text", json |-> TRUE, is_dict |-> TRUE,
                        value |-> obj]) : obj \in PlannerObjects[svc]}

PlannerUnavailable(response) ==
    \/ response.kind = "raised"
    \/ response.kind = "returned" /\ ~response.value.json

-----------------------------------------------------------------------------
(* campaign_timeline_optimizer.py: process_timeline_data and its helpers *)

\* The phase measured against the number of days of the window, end - start + 1.
CampaignPhaseMutant(scheduled_date, req) ==
    IF \/ ~WellFormed(scheduled_date)
       \/ ~WellFormed(req.campaign_duration.start_date)
       \/ ~WellFormed(req.campaign_duration.end_date)
    THEN "unknown_phase"
    ELSE LET total_days == TotalDays(req)
             days_from_start == ToOrdinal(scheduled_date)
                                    - ToOrdinal(req.campaign_duration.start_date)
         IN  IF 10 * days_from_start < total_days * 3 THEN "launch_phase"
             ELSE IF 10 * days_from_start < total_days * 7 THEN "growth_phase"
             ELSE "conclusion_phase"

determine_campaign_phase(scheduled_date, req) ==
    IF \/ ~WellFormed(scheduled_date)
       \/ ~WellFormed(req.campaign_duration.start_date)
       \/ ~WellFormed(req.campaign_duration.end_date)
    THEN "unknown_phase"
    ELSE LET total_days == ToOrdinal(req.campaign_duration.end_date)
                               - ToOrdinal(req.campaign_duration.start_date)
             days_from_start == ToOrdinal(scheduled_date)
                                    - ToOrdinal(req.campaign_duration.start_date)
         IN  IF 10 * days_from_start < total_days * 3 THEN "launch_phase"
             ELSE IF 10 * days_from_start < total_days * 7 THEN "growth_phase"
             ELSE "conclusion_phase"

\* A score that starts from the score the slot already carries, not from 0.5.
EngagementScoreMutant(slot, req) ==
    Min(10, Get(slot, "engagement_score", 5)
                + (IF Contains(Get(slot, "priority", <<>>), "high") THEN 3 ELSE 1))

\* In tenths: 0.5, +0.3 or +0.1, +0.2, +0.2, at most 1.0.
calculate_engagement_score(slot, req) ==
    LET priority == Get(slot, "priority", <<>>)
        base == 5 + (IF Contains(priority, "high") THEN 3
                     ELSE IF Contains(priority, "medium") THEN 1 ELSE 0)
        platform == IF "platform" \in DOMAIN slot
                       /\ slot.platform = req.optimal_posting_times.platform
                    THEN 2 ELSE 0
        time == IF "optimal_time" \in DOMAIN slot
                   /\ Contains(req.optimal_posting_times.time_slots, slot.optimal_time)
                THEN 2 ELSE 0
    IN  Min(10, base + platform + time)

determine_content_priority(slot) ==
    LET priority_levels == Get(slot, "priority", <<>>)
    IN  IF Contains(priority_levels, "high") THEN "critical"
        ELSE IF Contains(priority_levels, "medium") THEN "important"
        ELSE "standard"

\* {**slot, "campaign_phase": ..., "engagement_score": ..., "content_priority": ...}
EnhancedSlot(slot, req) ==
    [campaign_phase |-> determine_campaign_phase(slot.scheduled_date, req),
     engagement_score |-> calculate_engagement_score(slot, req),
     content_priority |-> determine_content_priority(slot)] @@ slot

\* f"{a / b * 100:.1f}": tenths of a percent, ties to even.
PercentTenths(a, b) ==
    LET q == (a * 1000) \div b
        r == (a * 1000) % b
    IN  IF 2 * r > b \/ (2 * r = b /\ q % 2 = 1) THEN q + 1 ELSE q

\* An enrichment that guards the ratio of high-priority slots against an empty
\* timeline.
ProcessTimelineMutant(raw, req) ==
    IF ~raw.is_dict THEN Raised("AttributeError")
    ELSE LET timeline_slots == Get(raw.value, "optimized_timeline", <<>>)
             insights == Get(raw.value, "timeline_insights", <<>>)
         IN  IF \E i \in 1..Len(timeline_slots) :
                    "scheduled_date" \notin DOMAIN timeline_slots[i]
             THEN Raised("KeyError")
             ELSE LET enhanced_slots ==
                          [i \in 1..Len(timeline_slots) |->
                              EnhancedSlot(timeline_slots[i], req)]
                      high_priority_slots == HighPriorityCount(enhanced_slots)
                      platform_distribution == Distribution(enhanced_slots, "platform")
                  IN  Returned(
                        [optimized_timeline |-> enhanced_slots,
                         timeline_insights |->
                             [total_slots |-> Len(enhanced_slots),
                              high_priority_slots |-> high_priority_slots,
                              platform_distribution |-> platform_distribution,
                              audience_coverage |->
                                  Distribution(enhanced_slots, "target_segment"),
                              engagement_prediction |->
                                  Get(insights, "engagement_prediction",
                                      "High engagement expected"),
                              timeline_efficiency |->
                                  IF Len(enhanced_slots) = 0 THEN 0
                                  ELSE PercentTenths(high_priority_slots,
                                                     Len(enhanced_slots)),
                              content_diversity |->
                                  Cardinality({Get(enhanced_slots[i], "content_type", "") :
                                                  i \in 1..Len(enhanced_slots)}),
                              platform_coverage |->
                                  Cardinality(DOMAIN platform_distribution)],
                         campaign_duration |-> req.campaign_duration,
                         content_inventory |-> req.content_inventory,
                         audience_segments |-> req.audience_segments,
                         optimal_posting_times |-> req.optimal_posting_times,
                         posting_frequency |-> req.posting_frequency,
                         key_dates |-> req.key_dates,
                         budget_constraints |-> req.budget_constraints])

process_timeline_data(raw, req) ==
    IF ~raw.is_dict THEN Raised("AttributeError")
    ELSE LET timeline_slots == Get(raw.value, "optimized_timeline", <<>>)
             insights == Get(raw.value, "timeline_insights", <<>>)
         IN  IF \E i \in 1..Len(timeline_slots) :
                    "scheduled_date" \notin DOMAIN timeline_slots[i]
             THEN Raised("KeyError")
             ELSE IF Len(timeline_slots) = 0 THEN Raised("ZeroDivisionError")
             ELSE LET enhanced_slots ==
                          [i \in 1..Len(timeline_slots) |->
                              EnhancedSlot(timeline_slots[i], req)]
                      high_priority_slots == HighPriorityCount(enhanced_slots)
                      platform_distribution == Distribution(enhanced_slots, "platform")
                  IN  Returned(
                        [optimized_timeline |-> enhanced_slots,
                         timeline_insights |->
                             [total_slots |-> Len(enhanced_slots),
                              high_priority_slots |-> high_priority_slots,
                              platform_distribution |-> platform_distribution,
                              audience_coverage |->
                                  Distribution(enhanced_slots, "target_segment"),
                              engagement_prediction |->
                                  Get(insights, "engagement_prediction",
                                      "High engagement expected"),
                              timeline_efficiency |->
                                  PercentTenths(high_priority_slots, Len(enhanced_slots)),
                              content_diversity |->
                                  Cardinality({Get(enhanced_slots[i], "content_type", "") :
                                                  i \in 1..Len(enhanced_slots)}),
                              platform_coverage |->
                                  Cardinality(DOMAIN platform_distribution)],
                         campaign_duration |-> req.campaign_duration,
                         content_inventory |-> req.content_inventory,
                         audience_segments |-> req.audience_segments,
                         optimal_posting_times |-> req.optimal_posting_times,
                         posting_frequency |-> req.posting_frequency,
                         key_dates |-> req.key_dates,
                         budget_constraints |-> req.budget_constraints])

Response(outputs, status) == [outputs |-> outputs, execution_status |-> status]

-----------------------------------------------------------------------------
(* campaign_timeline_optimizer.py: optimize_campaign_timeline *)

\* A handler that re-raises instead of falling back.
TimelineExceptOutcomeMutant(req) == Raised("Exception")

\* The handler of "except Exception": the fallback timeline, returned as it is.
TimelineExceptOutcome(req) ==
    LET fallback_timeline == create_fallback_timeline(req)
    IN  IF fallback_timeline.kind = "raised" THEN fallback_timeline
        ELSE Returned(Response(fallback_timeline.value, "partial_success"))

\* response = timeline_agent.run(analysis_prompt)
TimelineRunPlanner ==
    /\ svc = "optimize_campaign_timeline"
    /\ pc = "start"
    /\ \E response \in PlannerResponses :
          /\ planner_response' = response
          /\ pc' = IF response.kind = "raised" THEN "except" ELSE "parse"
    /\ UNCHANGED <<svc, request, data, result, matchVars, callVars>>

\* optimized_data = json.loads(response.content), or the fallback timeline on
\* json.JSONDecodeError.
TimelineParse ==
    /\ svc = "optimize_campaign_timeline"
    /\ pc = "parse"
    /\ LET content == planner_response.value
           fallback == create_fallback_timeline(request)
       IN  IF content.content = "none"
           THEN pc' = "except" /\ data' = data
           ELSE IF content.json
           THEN /\ data' = [source |-> "planner", is_dict |-> content.is_dict,
                            value |-> Get(content, "value", <<>>)]
                /\ pc' = "process"
           ELSE IF fallback.kind = "raised"
           THEN pc' = "except" /\ data' = data
           ELSE /\ data' = [source |-> "fallback", is_dict |-> TRUE,
                            value |-> fallback.value]
                /\ pc' = "process"
    /\ UNCHANGED <<svc, request, planner_response, result, matchVars, callVars>>

\* processed_timeline = process_timeline_data(optimized_data, request) and the
\* "success" response.
TimelineProcess ==
    /\ svc = "optimize_campaign_timeline"
    /\ pc = "process"
    /\ LET processed_timeline == process_timeline_data(data, request)
       IN  IF processed_timeline.kind = "raised"
           THEN pc' = "except" /\ result' = result
           ELSE /\ result' = Returned(Response(processed_timeline.value, "success"))
                /\ pc' = "done"
    /\ UNCHANGED <<svc, request, planner_response, data, matchVars, callVars>>

TimelineExcept ==
    /\ svc = "optimize_campaign_timeline"
    /\ pc = "except"
    /\ result' = TimelineExceptOutcome(request)
    /\ data' = [source |-> "fallback", is_dict |-> TRUE, value |-> <<>>]
    /\ pc' = "done"
    /\ UNCHANGED <<svc, request, planner_response, matchVars, callVars>>

TimelineRequests ==
    {TimelineRequest(w[1], w[2], l[1], l[2], l[3], f[1], f[2], keys) :
        w \in {<<(<<2025, 12, 1>>), (<<2025, 12, 1>>)>>,
               <<(<<2025, 12, 1>>), (<<2025, 12, 11>>)>>,
               <<(<<2025, 12, 31>>), (<<2026, 1, 20>>)>>,
               <<(<<2025, 12, 31>>), (<<2025, 12, 1>>)>>,
               <<(<<2025, 12, 1>>), (<<2025, 2, 30>>)>>},
        l \in {c \in ListChoices : Len(c[1]) # 1},
        f \in {<<0, 1>>, <<1, 1>>},
        keys \in {k \in KeyDateLists : Len(k) <= 1}}

InitTimeline ==
    /\ svc = "optimize_campaign_timeline"
    /\ request \in TimelineRequests
    /\ pc = "start"
    /\ planner_response = NoResult
    /\ data = NoResult
    /\ result = NoResult
    /\ IdleMatch
    /\ IdleCalls

NextTimeline ==
    \/ TimelineRunPlanner
    \/ TimelineParse
    \/ TimelineProcess
    \/ TimelineExcept

SpecTimeline == InitTimeline /\ [][NextTimeline]_vars

\* The shape process_timeline_data gives a response.
ProcessedShape(outputs) ==
    /\ DOMAIN outputs =
           {"optimized_timeline", "timeline_insights", "campaign_duration",
            "content_inventory", "audience_segments", "optimal_posting_times",
            "posting_frequency", "key_dates", "budget_constraints"}
    /\ \A i \in 1..Len(outputs.optimized_timeline) :
          {"campaign_phase", "engagement_score", "content_priority"}
              \subseteq DOMAIN outputs.optimized_timeline[i]

(* C7: whichever of the planner and the fallback builder supplied the
   timeline, the response of optimize_campaign_timeline has the top-level
   output fields of a processed timeline, and every slot carries
   campaign_phase, engagement_score and content_priority. *)
C7_SameResponseShape ==
    (Done("optimize_campaign_timeline") /\ result.kind = "returned") => ProcessedShape(result.value.outputs)

(* C9: for a valid request optimize_campaign_timeline never lets an exception
   out, whatever the planner does: every finished run returned a response
   whose execution_status is "success" or "partial_success". *)
C9_NeverPropagates ==
    (Done("optimize_campaign_timeline") /\ ValidTimelineRequest(request)) =>
        /\ result.kind = "returned"
        /\ result.value.execution_status \in {"success", "partial_success"}

\* A valid request whose planner answer broke the processing (a slot without
\* scheduled_date) and still ended in a response.
C9_Witness ==
    /\ Done("optimize_campaign_timeline")
    /\ ValidTimelineRequest(request)
    /\ planner_response.kind = "returned"
    /\ planner_response.value.json
    /\ planner_response.value.is_dict
    /\ process_timeline_data(data, request).kind = "raised"
    /\ result.kind = "returned"
    /\ result.value.execution_status = "partial_success"

-----------------------------------------------------------------------------
(* outreach_call_scheduler.py: prioritize_leads and the call items *)

\* len(priority_segments) - i for the first segment found in the industry, else 0.
RECURSIVE IndustryPriority(_, _, _)
IndustryPriority(priority_segments, lead, i) ==
    IF i > Len(priority_segments) THEN 0
    ELSE IF IsSubstring(Lower(priority_segments[i]), Lower(lead.industry))
         THEN Len(priority_segments) - (i - 1)
         ELSE IndustryPriority(priority_segments, lead, i + 1)

\* get_lead_priority(lead) = (-industry_priority, -score_priority)
get_lead_priority(lead, criteria) ==
    <<0 - IndustryPriority(criteria.priority_segments, lead, 1),
      0 - lead.qualification_score>>

RECURSIVE InsertByPriority(_, _, _)
InsertByPriority(sorted, lead, criteria) ==
    LET a == get_lead_priority(lead, criteria)
        b == get_lead_priority(Head(sorted), criteria)
    IN  IF sorted = <<>> THEN <<lead>>
        ELSE IF a[1] < b[1] \/ (a[1] = b[1] /\ a[2] < b[2])
        THEN <<lead>> \o sorted
        ELSE <<Head(sorted)>> \o InsertByPriority(Tail(sorted), lead, criteria)

\* sorted(qualified_leads, key=get_lead_priority): stable.
RECURSIVE SortByPriority(_, _)
SortByPriority(leads, criteria) ==
    IF leads = <<>> THEN <<>>
    ELSE InsertByPriority(SortByPriority(SubSeq(leads, 1, Len(leads) - 1), criteria),
                          leads[Len(leads)], criteria)

QualifiedLeads(leads, criteria) ==
    SelectSeq(leads,
              LAMBDA lead : lead.qualification_score >= criteria.qualification_score_threshold)

PriorityLevel(lead) ==
    IF lead.qualification_score >= 80 THEN "high"
    ELSE IF lead.qualification_score >= 60 THEN "medium"
    ELSE "low"

prioritize_leads(leads, criteria) ==
    LET qualified_leads == QualifiedLeads(leads, criteria)
        prioritized_leads == SortByPriority(qualified_leads, criteria)
        level(l) == SelectSeq(prioritized_leads, LAMBDA lead : PriorityLevel(lead) = l)
    IN  [total_leads |-> Len(leads),
         qualified_leads |-> Len(qualified_leads),
         prioritized_leads |-> prioritized_leads,
         priority_distribution |->
             [high_priority |-> Len(level("high")),
              medium_priority |-> Len(level("medium")),
              low_priority |-> Len(level("low"))],
         high_priority_leads |-> level("high"),
         medium_priority_leads |-> level("medium"),
         low_priority_leads |-> level("low")]

generate_call_objectives(lead) ==
    IF InLower("technology", lead.industry) \/ InLower("software", lead.industry)
    THEN (IF InLower("cto", lead.job_title) \/ InLower("vp", lead.job_title)
          THEN "Discuss technology solutions and digital transformation opportunities"
          ELSE "Introduce our software solutions and schedule product demo")
    ELSE IF InLower("healthcare", lead.industry)
    THEN "Present healthcare solutions and compliance benefits"
    ELSE IF InLower("finance", lead.industry) \/ InLower("banking", lead.industry)
    THEN "Discuss financial services solutions and security features"
    ELSE IF InLower("retail", lead.industry) \/ InLower("ecommerce", lead.industry)
    THEN "Present retail solutions and customer engagement tools"
    ELSE IF InLower("manufacturing", lead.industry)
    THEN "Discuss manufacturing solutions and operational efficiency"
    ELSE IF InLower("enterprise", lead.company_size) \/ InLower("large", lead.company_size)
    THEN "Schedule executive meeting to discuss enterprise solutions"
    ELSE IF InLower("small", lead.company_size) \/ InLower("startup", lead.company_size)
    THEN "Introduce our solutions and discuss growth opportunities"
    ELSE "Introduce our services and explore partnership opportunities"

\* Minutes.
estimate_call_duration(lead) ==
    LET size == IF InLower("enterprise", lead.company_size)
                   \/ InLower("large", lead.company_size) THEN 10
                ELSE IF InLower("small", lead.company_size)
                        \/ InLower("startup", lead.company_size) THEN 0 - 5
                ELSE 0
        title == IF InLower("ceo", lead.job_title)
                    \/ InLower("president", lead.job_title) THEN 15
                 ELSE IF InLower("manager", lead.job_title)
                         \/ InLower("director", lead.job_title) THEN 5
                 ELSE 0
        score == IF lead.qualification_score >= 80 THEN 10
                 ELSE IF lead.qualification_score >= 60 THEN 5
                 ELSE 0
    IN  Min(60, Max(10, 15 + size + title + score))

\* preferred_hours[call_num % len(preferred_hours)] if preferred_hours else "10:00";
\* a time of day "HH:MM" is <<hour, minute>>.
CallTime(preferred_hours, call_num) ==
    IF Len(preferred_hours) > 0
    THEN preferred_hours[(call_num % Len(preferred_hours)) + 1]
    ELSE <<10, 0>>

\* An item whose schedule_id is numbered within the day.
ScheduleItemMutant(req, lead, schedule_id, date_str, call_num) ==
    [schedule_id |-> SlotName("call_", call_num + 1),
     lead_id |-> lead.lead_id,
     lead_contact_info |->
         [company_name |-> lead.company_name,
          contact_name |-> lead.contact_name,
          email |-> lead.email,
          phone |-> lead.phone,
          job_title |-> lead.job_title,
          industry |-> lead.industry,
          company_size |-> lead.company_size,
          location |-> lead.location],
     scheduled_datetime |->
         <<date_str, CallTime(req.call_window_preferences.preferred_hours, call_num)>>,
     call_objective |-> generate_call_objectives(lead),
     expected_duration |-> estimate_call_duration(lead),
     priority_level |-> PriorityLevel(lead)]

\* The item appended for the lead called as call number call_num of the day;
\* scheduled_datetime f"{date_str} {call_time}" is <<date_str, call_time>>.
ScheduleItem(req, lead, schedule_id, date_str, call_num) ==
    [schedule_id |-> SlotName("call_", schedule_id),
     lead_id |-> lead.lead_id,
     lead_contact_info |->
         [company_name |-> lead.company_name,
          contact_name |-> lead.contact_name,
          email |-> lead.email,
          phone |-> lead.phone,
          job_title |-> lead.job_title,
          industry |-> lead.industry,
          company_size |-> lead.company_size,
          location |-> lead.location],
     scheduled_datetime |->
         <<date_str, CallTime(req.call_window_preferences.preferred_hours, call_num)>>,
     call_objective |-> generate_call_objectives(lead),
     expected_duration |-> estimate_call_duration(lead),
     priority_level |-> PriorityLevel(lead)]

-----------------------------------------------------------------------------
(* outreach_call_scheduler.py: process_call_schedule_data *)

\* Every path ends in an exception: the returned dict reads timezone_analysis,
\* a name that is neither a parameter nor a global of the module.
process_call_schedule_data(raw, req) ==
    IF ~raw.is_dict THEN Raised("AttributeError")
    ELSE IF ~WellFormed(req.campaign_duration.start_date) THEN Raised("ValueError")
    ELSE IF req.calls_per_day = 0 THEN Raised("ZeroDivisionError")
    ELSE Raised("NameError")

-----------------------------------------------------------------------------
(* outreach_call_scheduler.py: create_fallback_call_schedule, one action per
   pass of its while loop *)

\* lead_prioritization.get("prioritized_leads", request.discovered_leads),
\* the two strptime calls and the loop variables.
EnterFallbackCallSchedule(site, lead_prioritization) ==
    /\ fb_site' = site
    /\ fb_leads' = Get(lead_prioritization, "prioritized_leads", request.discovered_leads)
    /\ current_date' = ToOrdinal(request.campaign_duration.start_date)
    /\ lead_index' = 0
    /\ call_schedule' = <<>>
    /\ pc' = "fallback"

FallbackWindowParses ==
    /\ WellFormed(request.campaign_duration.start_date)
    /\ WellFormed(request.campaign_duration.end_date)

\* while current_date <= end_date and lead_index < len(prioritized_leads)
FallbackLoopCondition ==
    /\ current_date <= ToOrdinal(request.campaign_duration.end_date)
    /\ lead_index < Len(fb_leads)

\* A day that takes every remaining lead, whatever calls_per_day is.
CallsTodayMutant == Max(0, Len(fb_leads) - lead_index)

\* range(min(calls_per_day, len(prioritized_leads) - lead_index)) has this many
\* elements.
CallsToday == Max(0, Min(request.calls_per_day, Len(fb_leads) - lead_index))

\* A test of the avoid dates that never skips a day.
InAvoidDatesMutant(date_str) == FALSE

\* date_str in request.call_window_preferences.avoid_dates
InAvoidDates(date_str) ==
    Contains(request.call_window_preferences.avoid_dates, date_str)

\* A loop pass whose "continue" on an avoided date leaves current_date as it is.
FallbackCallDayMutant ==
    /\ pc = "fallback"
    /\ FallbackLoopCondition
    /\ LET date_str == FromOrdinal(current_date)
       IN  IF InAvoidDates(date_str)
           THEN UNCHANGED <<lead_index, call_schedule, current_date>>
           ELSE /\ call_schedule' = call_schedule \o
                       [k \in 1..CallsToday |->
                           ScheduleItem(request, fb_leads[lead_index + k],
                                        Len(call_schedule) + k, date_str, k - 1)]
                /\ lead_index' = lead_index + CallsToday
                /\ current_date' = current_date + 1
    /\ UNCHANGED <<svc, request, pc, planner_response, data, result, matchVars,
                   fb_site, fb_leads>>

FallbackCallDay ==
    /\ pc = "fallback"
    /\ FallbackLoopCondition
    /\ LET date_str == FromOrdinal(current_date)
       IN  IF InAvoidDates(date_str)
           THEN UNCHANGED <<lead_index, call_schedule>>
           ELSE /\ call_schedule' = call_schedule \o
                       [k \in 1..CallsToday |->
                           ScheduleItem(request, fb_leads[lead_index + k],
                                        Len(call_schedule) + k, date_str, k - 1)]
                /\ lead_index' = lead_index + CallsToday
    /\ current_date' = current_date + 1
    /\ UNCHANGED <<svc, request, pc, planner_response, data, result, matchVars,
                   fb_site, fb_leads>>

\* The dict create_fallback_call_schedule returns.
FallbackCallScheduleData ==
    [call_schedule |-> call_schedule,
     schedule_summary |->
         [total_calls_scheduled |-> Len(call_schedule),
          daily_distribution |-> <<>>,
          \* a / b * 100, as the fraction <<100 * a, b>>
          coverage_percentage |->
              <<100 * Len(call_schedule), Len(request.discovered_leads)>>,
          estimated_completion_date |-> request.campaign_duration.end_date]]

-----------------------------------------------------------------------------
(* outreach_call_scheduler.py: schedule_outreach_calls *)

LeadPrioritization ==
    prioritize_leads(request.discovered_leads, request.prioritization_criteria)

\* json.dumps(lead_prioritization) raises TypeError as soon as one of its lists
\* holds a lead: a DiscoveredLead object is not JSON serializable.
PromptSerializes == Len(LeadPrioritization.prioritized_leads) = 0

\* The try block up to response = scheduler_agent.run(scheduling_prompt).
CallsRunPlanner ==
    /\ svc = "schedule_outreach_calls"
    /\ pc = "start"
    /\ IF PromptSerializes
       THEN \E response \in PlannerResponses :
               /\ planner_response' = response
               /\ pc' = IF response.kind = "raised" THEN "except" ELSE "parse"
       ELSE pc' = "except" /\ planner_response' = planner_response
    /\ UNCHANGED <<svc, request, data, result, matchVars, callVars>>

\* schedule_data = json.loads(response.content), or on json.JSONDecodeError
\* the entry into create_fallback_call_schedule(request, lead_prioritization,
\* timezone_analysis).
CallsParse ==
    /\ svc = "schedule_outreach_calls"
    /\ pc = "parse"
    /\ LET content == planner_response.value
       IN  IF content.content = "none"
           THEN pc' = "except" /\ UNCHANGED <<data, callVars>>
           ELSE IF content.json
           THEN /\ data' = [source |-> "planner", is_dict |-> content.is_dict,
                            value |-> Get(content, "value", <<>>)]
                /\ pc' = "process"
                /\ UNCHANGED callVars
           ELSE IF ~FallbackWindowParses
           THEN pc' = "except" /\ UNCHANGED <<data, callVars>>
           ELSE /\ EnterFallbackCallSchedule("decode", LeadPrioritization)
                /\ data' = data
    /\ UNCHANGED <<svc, request, planner_response, result, matchVars>>

\* processed_schedule = process_call_schedule_data(...) and the "success"
\* response.
CallsProcess ==
    /\ svc = "schedule_outreach_calls"
    /\ pc = "process"
    /\ LET processed_schedule == process_call_schedule_data(data, request)
       IN  IF processed_schedule.kind = "raised"
           THEN pc' = "except" /\ result' = result
           ELSE /\ result' = Returned(Response(processed_schedule.value, "success"))
                /\ pc' = "done"
    /\ UNCHANGED <<svc, request, planner_response, data, matchVars, callVars>>

\* except Exception: the entry into create_fallback_call_schedule(request, {}, {}).
CallsExcept ==
    /\ svc = "schedule_outreach_calls"
    /\ pc = "except"
    /\ IF FallbackWindowParses
       THEN EnterFallbackCallSchedule("except", <<>>) /\ result' = result
       ELSE /\ result' = Raised("ValueError")
            /\ pc' = "done"
            /\ UNCHANGED callVars
    /\ UNCHANGED <<svc, request, planner_response, data, matchVars>>

\* The loop of create_fallback_call_schedule is over: its return statement, and
\* what the caller does with the dict.
CallsFallbackReturn ==
    /\ svc = "schedule_outreach_calls"
    /\ pc = "fallback"
    /\ ~FallbackLoopCondition
    /\ IF Len(request.discovered_leads) = 0
       THEN IF fb_site = "decode"
            THEN pc' = "except" /\ UNCHANGED <<data, result>>
            ELSE /\ result' = Raised("ZeroDivisionError")
                 /\ pc' = "done"
                 /\ data' = data
       ELSE IF fb_site = "decode"
            THEN /\ data' = [source |-> "fallback", is_dict |-> TRUE,
                             value |-> FallbackCallScheduleData]
                 /\ pc' = "process"
                 /\ result' = result
            ELSE /\ result' = Returned(Response(FallbackCallScheduleData,
                                                "partial_success"))
                 /\ data' = [source |-> "fallback", is_dict |-> TRUE, value |-> <<>>]
                 /\ pc' = "done"
    /\ UNCHANGED <<svc, request, planner_response, matchVars, callVars>>

(* Requests for a call schedule *)

MaxLeads == 3
MaxCallsPerDay == 2

Lead(id, company, title, industry, size, score) ==
    [lead_id |-> id,
     company_name |-> company,
     contact_name |-> "Contact",
     email |-> "contact@example.com",
     phone |-> "+1-555-0123",
     job_title |-> title,
     industry |-> industry,
     company_size |-> size,
     location |-> "Austin, TX",
     qualification_score |-> score]

\* Lists of different leads.
LeadLists ==
    LET LeadPool ==
            {Lead("lead_001", "TechCorp", "CTO", "Technology", "Enterprise", 90),
             Lead("lead_002", "CarePoint", "Sales Manager", "Healthcare", "Small", 95),
             Lead("lead_003", "PayWave", "Analyst", "FinTech", "Medium", 55),
             Lead("lead_004", "LedgerOne", "Analyst", "Finance", "Medium", 70)}
    IN  UNION {{l \in [1..n -> LeadPool] : \A i, j \in 1..n : i # j => l[i] # l[j]} :
                  n \in 0..MaxLeads}

CallRequest(leads, hours, avoid, start, end, per_day, threshold, segments) ==
    [discovered_leads |-> leads,
     call_window_preferences |->
         [timezone |-> "EST", preferred_hours |-> hours, avoid_dates |-> avoid],
     campaign_duration |-> [start_date |-> start, end_date |-> end],
     calls_per_day |-> per_day,
     prioritization_criteria |->
         [qualification_score_threshold |-> threshold, priority_segments |-> segments]]

CallRequests ==
    {CallRequest(leads, p[1], p[2], w[1], w[2], per_day, c[1], c[2]) :
        leads \in LeadLists,
        p \in {<<>>, <<(<<14, 0>>), (<<9, 0>>)>>} \X {<<>>, <<(<<2025, 12, 2>>)>>},
        w \in {<<(<<2025, 12, 1>>), (<<2025, 12, 1>>)>>,
               <<(<<2025, 12, 1>>), (<<2025, 12, 3>>)>>,
               <<(<<2025, 12, 2>>), (<<2025, 12, 2>>)>>,
               <<(<<2025, 12, 3>>), (<<2025, 12, 1>>)>>,
               <<(<<2025, 12, 1>>), (<<2025, 2, 30>>)>>},
        per_day \in (0 - 1)..MaxCallsPerDay,
        c \in {60, 100} \X {<<"Technology", "Finance">>, <<"tech">>}}

InitCalls ==
    /\ svc = "schedule_outreach_calls"
    /\ request \in CallRequests
    /\ pc = "start"
    /\ planner_response = NoResult
    /\ data = NoResult
    /\ result = NoResult
    /\ IdleMatch
    /\ IdleCalls

NextCalls ==
    \/ CallsRunPlanner
    \/ CallsParse
    \/ CallsProcess
    \/ CallsExcept
    \/ FallbackCallDay
    \/ CallsFallbackReturn

SpecCalls == InitCalls /\ [][NextCalls]_vars

\* The discovered lead a schedule item is about.
LeadOf(item) ==
    CHOOSE lead \in {request.discovered_leads[i] : i \in 1..Len(request.discovered_leads)} :
        lead.lead_id = item.lead_id

(* C5: in the call schedule schedule_outreach_calls returns, a lead whose
   industry ranks earlier in priority_segments than another's is scheduled no
   later than the other, and of two leads of equal rank the one with the
   higher qualification_score is scheduled no later. *)
C5_LeadPriorityOrdering ==
    (Done("schedule_outreach_calls") /\ result.kind = "returned") =>
        LET schedule == result.value.outputs.call_schedule
            \* The position in priority_segments of the first segment the lead's
            \* industry matches; industries that match none come after the last.
            IndustryRank(lead) ==
                Len(request.prioritization_criteria.priority_segments) + 1
                    - IndustryPriority(request.prioritization_criteria.priority_segments,
                                       lead, 1)
            \* a is no later than b, for <<date, time of day>>.
            NoLater(a, b) ==
                \/ DateStrLess(a[1], b[1])
                \/ a[1] = b[1] /\ (a[2][1] < b[2][1]
                                    \/ (a[2][1] = b[2][1] /\ a[2][2] <= b[2][2]))
        IN  \A i, j \in 1..Len(schedule) :
               LET A == LeadOf(schedule[i])
                   B == LeadOf(schedule[j])
               IN  (\/ IndustryRank(A) < IndustryRank(B)
                    \/ /\ IndustryRank(A) = IndustryRank(B)
                       /\ A.qualification_score > B.qualification_score)
                       => NoLater(schedule[i].scheduled_datetime,
                                  schedule[j].scheduled_datetime)

(* C8: on every path by which schedule_outreach_calls reaches
   create_fallback_call_schedule, every lead put in the call schedule has
   qualification_score >= qualification_score_threshold. *)
C8_FallbackLeadsQualified ==
    (svc = "schedule_outreach_calls" /\ fb_site # "none") =>
        \A i \in 1..Len(call_schedule) :
            LeadOf(call_schedule[i]).qualification_score
                >= request.prioritization_criteria.qualification_score_threshold

-----------------------------------------------------------------------------
(* content_distribution_scheduler.py: the schedule builders *)

\* seq[:n]
Truncate(seq, n) ==
    IF n >= 0 THEN SubSeq(seq, 1, Min(n, Len(seq)))
    ELSE SubSeq(seq, 1, Max(0, Len(seq) + n))

analyze_platform_requirements(platform_specs) ==
    [platform_name |-> platform_specs.platform_name,
     max_caption_length |-> platform_specs.max_caption_length,
     supported_formats |-> platform_specs.supported_formats,
     aspect_ratio_requirements |-> platform_specs.aspect_ratio_requirements,
     best_practices |->
         IF InLower("instagram", platform_specs.platform_name) THEN "instagram"
         ELSE IF InLower("facebook", platform_specs.platform_name) THEN "facebook"
         ELSE IF InLower("linkedin", platform_specs.platform_name) THEN "linkedin"
         ELSE "default"]

\* The item built for one matched slot; copy_text is kept as its characters,
\* scheduled_datetime f"{date} {time}" as <<date, time>>.
FallbackScheduleItem(req, matched_slot, schedule_id) ==
    [schedule_item_id |-> SlotName("post_", schedule_id),
     scheduled_datetime |->
         <<matched_slot.slot.scheduled_date, matched_slot.slot.optimal_time>>,
     platform |-> matched_slot.slot.platform,
     content_package |->
         [copy_id |-> matched_slot.assigned_copy.copy_id,
          copy_text |-> Truncate(Spelling[matched_slot.assigned_copy.copy_text],
                                 req.platform_specifications.max_caption_length),
          asset_ids |-> [i \in 1..Len(matched_slot.assigned_images) |->
                            matched_slot.assigned_images[i].image_id],
          asset_urls |-> [i \in 1..Len(matched_slot.assigned_images) |->
                             matched_slot.assigned_images[i].image_url]],
     posting_parameters |->
         [hashtags |-> Truncate(matched_slot.assigned_copy.hashtags, 5),
          mentions |-> <<>>,
          location_tag |-> None],
     target_segment |-> matched_slot.slot.target_segment]

create_fallback_schedule(req, matching) ==
    LET matched_slots == Get(matching, "matched_slots", <<>>)
        distribution_schedule ==
            [i \in 1..Len(matched_slots) |-> FallbackScheduleItem(req, matched_slots[i], i)]
    IN  IF Len(req.optimized_timeline) = 0 THEN Raised("ZeroDivisionError")
        ELSE Returned(
               [distribution_schedule |-> distribution_schedule,
                schedule_summary |->
                    [total_posts |-> Len(distribution_schedule),
                     posts_by_platform |-> <<>>,
                     campaign_coverage |->
                         [timeline_coverage |->
                              PercentTenths(Len(distribution_schedule),
                                            Len(req.optimized_timeline)),
                          content_utilization |-> "100%",
                          platform_distribution |-> "balanced"]]])

ItemCopyText(item) == Get(Get(item, "content_package", <<>>), "copy_text", <<>>)
ItemAssetUrls(item) == Get(Get(item, "content_package", <<>>), "asset_urls", <<>>)
ItemHashtags(item) == Get(Get(item, "posting_parameters", <<>>), "hashtags", <<>>)

check_platform_compliance(item, platform_specs) ==
    [caption_length |-> Len(ItemCopyText(item)),
     caption_within_limit |-> Len(ItemCopyText(item)) <= platform_specs.max_caption_length,
     hashtag_count |-> Len(ItemHashtags(item)),
     hashtag_appropriate |-> Len(ItemHashtags(item)) <= 10,
     overall_compliance |-> Len(ItemCopyText(item)) <= platform_specs.max_caption_length]

\* In tenths.
item_engagement_score(item) ==
    Min(10, 5 + (IF Len(ItemHashtags(item)) \in 3..7 THEN 2 ELSE 0)
              + (IF Len(ItemAssetUrls(item)) > 0 THEN 2 ELSE 0)
              + (IF Len(ItemCopyText(item)) > 50 THEN 1 ELSE 0))

assess_content_quality(item) ==
    LET quality_score == (IF Len(ItemCopyText(item)) > 0 THEN 1 ELSE 0)
                         + (IF Len(ItemAssetUrls(item)) > 0 THEN 1 ELSE 0)
                         + (IF Len(ItemHashtags(item)) > 0 THEN 1 ELSE 0)
    IN  IF quality_score >= 3 THEN "high"
        ELSE IF quality_score >= 2 THEN "medium"
        ELSE "basic"

generate_execution_notes(item, platform_specs) ==
    (IF 10 * Len(ItemCopyText(item)) > 9 * platform_specs.max_caption_length
     THEN <<"caption close to limit">> ELSE <<>>)
    \o (IF Len(ItemHashtags(item)) > 7 THEN <<"reduce hashtags">> ELSE <<>>)
    \o (IF Len(ItemAssetUrls(item)) = 0 THEN <<"no visual assets">> ELSE <<>>)

EnhancedItem(item, platform_specs) ==
    [content_optimization |->
         [platform_compliance |-> check_platform_compliance(item, platform_specs),
          engagement_score |-> item_engagement_score(item),
          content_quality |-> assess_content_quality(item)],
     execution_notes |-> generate_execution_notes(item, platform_specs)] @@ item

process_schedule_data(raw, req, matching) ==
    IF ~raw.is_dict THEN Raised("AttributeError")
    ELSE LET distribution_schedule == Get(raw.value, "distribution_schedule", <<>>)
             enhanced_schedule ==
                 [i \in 1..Len(distribution_schedule) |->
                     EnhancedItem(distribution_schedule[i], req.platform_specifications)]
             posts_by_platform == Distribution(enhanced_schedule, "platform")
             content_utilization == Get(matching, "content_utilization", <<>>)
         IN  Returned(
               [distribution_schedule |-> enhanced_schedule,
                schedule_summary |->
                    [total_posts |-> Len(enhanced_schedule),
                     posts_by_platform |-> posts_by_platform,
                     campaign_coverage |->
                         [timeline_coverage |->
                              IF Len(req.optimized_timeline) > 0
                              THEN PercentTenths(Len(enhanced_schedule),
                                                 Len(req.optimized_timeline))
                              ELSE 0,
                          content_utilization |->
                              PercentTenths(Get(content_utilization, "copies_used", 0),
                                            Max(1, Get(content_utilization,
                                                       "total_copies", 1))),
                          platform_distribution |->
                              IF Cardinality(DOMAIN posts_by_platform) > 1
                              THEN "balanced" ELSE "focused",
                          schedule_efficiency |->
                              <<Len(enhanced_schedule), Len(req.optimized_timeline)>>]],
                platform_specifications |-> req.platform_specifications,
                content_matching |-> matching,
                platform_analysis |->
                    analyze_platform_requirements(req.platform_specifications)])

-----------------------------------------------------------------------------
(* content_distribution_scheduler.py: schedule_content_distribution; the loop
   of match_content_to_timeline runs first, as MatchSlot *)

\* match_content_to_timeline has returned; response = scheduler_agent.run(...)
ContentRunPlanner ==
    /\ svc = "schedule_content_distribution"
    /\ pc = "matching"
    /\ slot_index = Len(request.optimized_timeline)
    /\ \E response \in PlannerResponses :
          /\ planner_response' = response
          /\ pc' = IF response.kind = "raised" THEN "except" ELSE "parse"
    /\ UNCHANGED <<svc, request, data, result, matchVars, callVars>>

\* schedule_data = json.loads(response.content), or on json.JSONDecodeError
\* create_fallback_schedule(request, content_matching, platform_analysis).
ContentParse ==
    /\ svc = "schedule_content_distribution"
    /\ pc = "parse"
    /\ LET content == planner_response.value
           fallback == create_fallback_schedule(request, content_matching)
       IN  IF content.content = "none"
           THEN pc' = "except" /\ data' = data
           ELSE IF content.json
           THEN /\ data' = [source |-> "planner", is_dict |-> content.is_dict,
                            value |-> Get(content, "value", <<>>)]
                /\ pc' = "process"
           ELSE IF fallback.kind = "raised"
           THEN pc' = "except" /\ data' = data
           ELSE /\ data' = [source |-> "fallback", is_dict |-> TRUE,
                            value |-> fallback.value]
                /\ pc' = "process"
    /\ UNCHANGED <<svc, request, planner_response, result, matchVars, callVars>>

ContentProcess ==
    /\ svc = "schedule_content_distribution"
    /\ pc = "process"
    /\ LET processed_schedule == process_schedule_data(data, request, content_matching)
       IN  IF processed_schedule.kind = "raised"
           THEN pc' = "except" /\ result' = result
           ELSE /\ result' = Returned(Response(processed_schedule.value, "success"))
                /\ pc' = "done"
    /\ UNCHANGED <<svc, request, planner_response, data, matchVars, callVars>>

\* except Exception: create_fallback_schedule(request, {}, {}), returned as it is.
ContentExcept ==
    /\ svc = "schedule_content_distribution"
    /\ pc = "except"
    /\ LET fallback_schedule == create_fallback_schedule(request, <<>>)
       IN  result' = IF fallback_schedule.kind = "raised" THEN fallback_schedule
                     ELSE Returned(Response(fallback_schedule.value, "partial_success"))
    /\ data' = [source |-> "fallback", is_dict |-> TRUE, value |-> <<>>]
    /\ pc' = "done"
    /\ UNCHANGED <<svc, request, planner_response, matchVars, callVars>>

(* Requests for a distribution schedule *)

PlatformSpecifications(limit) ==
    [platform_name |-> "Instagram",
     max_caption_length |-> limit,
     supported_formats |-> <<"image", "video">>,
     aspect_ratio_requirements |-> "1:1"]

ContentRequests ==
    {[optimized_timeline |-> timeline,
      generated_copies |-> copies,
      generated_images |-> images,
      video_url |-> None,
      platform_specifications |-> PlatformSpecifications(limit)] :
        timeline \in {t \in Timelines : Len(t) <= 2},
        copies \in CopyLists,
        images \in {None, Some(<<ImageOf(1)>>), Some(<<ImageOf(1), ImageOf(2), ImageOf(3)>>)},
        limit \in {5, 2200}}

InitContent ==
    /\ svc = "schedule_content_distribution"
    /\ request \in ContentRequests
    /\ pc = "matching"
    /\ planner_response = NoResult
    /\ data = NoResult
    /\ result = NoResult
    /\ content_matching = EmptyMatching(request.generated_copies, request.generated_images)
    /\ used_image_ids = {}
    /\ slot_index = 0
    /\ IdleCalls

NextContent ==
    \/ MatchSlot
    \/ ContentRunPlanner
    \/ ContentParse
    \/ ContentProcess
    \/ ContentExcept

SpecContent == InitContent /\ [][NextContent]_vars

-----------------------------------------------------------------------------
(* The three services side by side *)

Init == InitTimeline \/ InitContent \/ InitCalls

Next == NextTimeline \/ NextContent \/ NextCalls

Spec == Init /\ [][Next]_vars

(* C6: in each of the three services, a returned response whose data the
   fallback builder produced, the planner having raised or answered with text
   that is no JSON, carries execution_status "partial_success"; "success" goes
   only with the planner's own parsed output. *)
C6_FallbackMeansPartialSuccess ==
    (pc = "done" /\ result.kind = "returned") =>
        /\ (PlannerUnavailable(planner_response) /\ data.source = "fallback")
               => result.value.execution_status = "partial_success"
        /\ result.value.execution_status = "success"
               => (data.source = "planner" /\ ~PlannerUnavailable(planner_response))

-----------------------------------------------------------------------------
(* The fallback builder on an inverted window *)

(* C11: create_fallback_timeline ends with a raised error whenever the
   campaign window is inverted (both dates parse and total_days < 1); it
   never returns a timeline for such a window. *)
C11_InvertedWindowRaises ==
    ( /\ Done("create_fallback_timeline")
      /\ WellFormed(request.campaign_duration.start_date)
      /\ WellFormed(request.campaign_duration.end_date)
      /\ TotalDays(request) < 1 )
        => result.kind = "raised"

-----------------------------------------------------------------------------
(* outreach_call_scheduler.py: create_fallback_call_schedule called directly *)

\* create_fallback_call_schedule(request, lead_prioritization, {}) with the
\* dict prioritize_leads built, or with an empty dict: the lines before the loop.
CallCreateFallbackCallSchedule ==
    /\ svc = "create_fallback_call_schedule"
    /\ pc = "start"
    /\ IF FallbackWindowParses
       THEN /\ \E prioritized \in BOOLEAN :
                  EnterFallbackCallSchedule(
                      "direct", IF prioritized THEN LeadPrioritization ELSE <<>>)
            /\ result' = result
       ELSE /\ result' = Raised("ValueError")
            /\ pc' = "done"
            /\ UNCHANGED callVars
    /\ UNCHANGED <<svc, request, planner_response, data, matchVars>>

\* The return statement: len(call_schedule) / len(request.discovered_leads)
\* raises ZeroDivisionError when no lead was discovered.
FallbackCallScheduleReturn ==
    /\ svc = "create_fallback_call_schedule"
    /\ pc = "fallback"
    /\ ~FallbackLoopCondition
    /\ result' = IF Len(request.discovered_leads) = 0
                 THEN Raised("ZeroDivisionError")
                 ELSE Returned(FallbackCallScheduleData)
    /\ pc' = "done"
    /\ UNCHANGED <<svc, request, planner_response, data, matchVars, callVars>>

InitFallbackCalls ==
    /\ svc = "create_fallback_call_schedule"
    /\ request \in CallRequests
    /\ pc = "start"
    /\ planner_response = NoResult
    /\ data = NoResult
    /\ result = NoResult
    /\ IdleMatch
    /\ IdleCalls

NextFallbackCalls ==
    \/ CallCreateFallbackCallSchedule
    \/ FallbackCallDay
    \/ FallbackCallScheduleReturn

SpecFallbackCalls == InitFallbackCalls /\ [][NextFallbackCalls]_vars

\* The calendar day of a schedule item, as a day number.
CallDay(item) == ToOrdinal(item.scheduled_datetime[1])

(* C12: in every call schedule create_fallback_call_schedule returns, no call
   is dated on a date of avoid_dates, no calendar date carries more than
   calls_per_day calls, and every call's date lies within
   [start_date, end_date]. *)
C12_ScheduleRespectsWindow ==
    (Done("create_fallback_call_schedule") /\ result.kind = "returned") =>
        LET schedule == result.value.call_schedule
        IN  \A i \in 1..Len(schedule) :
               /\ ~Contains(request.call_window_preferences.avoid_dates,
                            schedule[i].scheduled_datetime[1])
               /\ Cardinality({j \in 1..Len(schedule) :
                                  CallDay(schedule[j]) = CallDay(schedule[i])})
                      <= request.calls_per_day
               /\ ToOrdinal(request.campaign_duration.start_date)
                      <= CallDay(schedule[i])
               /\ CallDay(schedule[i])
                      <= ToOrdinal(request.campaign_duration.end_date)

\* Three leads at one call a day over three days, the second of them to be
\* avoided: two calls are returned, one before and one after the avoided day.
C12_Witness ==
    /\ Done("create_fallback_call_schedule")
    /\ result.kind = "returned"
    /\ Len(fb_leads) = 3
    /\ request.calls_per_day = 1
    /\ Len(request.call_window_preferences.avoid_dates) > 0
    /\ Len(result.value.call_schedule) = 2
    /\ CallDay(result.value.call_schedule[1]) + 2
           = CallDay(result.value.call_schedule[2])

(* C13: create_fallback_call_schedule schedules exactly min(L, calls_per_day * D)
   calls, L being the number of leads handed to it and D the number of dates
   of [start_date, end_date] that are not in avoid_dates (calls_per_day >= 0);
   the days are filled in date order, calls_per_day calls each, so the k-th
   call is on the open date number ceil(k / calls_per_day). *)
C13_ScheduledCount ==
    ( /\ Done("create_fallback_call_schedule")
      /\ result.kind = "returned"
      /\ request.calls_per_day >= 0 )
        => LET schedule == result.value.call_schedule
               OpenDays ==
                   {d \in ToOrdinal(request.campaign_duration.start_date)
                              ..ToOrdinal(request.campaign_duration.end_date) :
                       ~Contains(request.call_window_preferences.avoid_dates,
                                 FromOrdinal(d))}
               NthOpenDay(n) ==
                   CHOOSE d \in OpenDays :
                       Cardinality({e \in OpenDays : e < d}) = n - 1
           IN  /\ Len(schedule)
                      = Min(Len(fb_leads),
                            request.calls_per_day * Cardinality(OpenDays))
               /\ result.value.schedule_summary.total_calls_scheduled
                      = Len(schedule)
               /\ \A k \in 1..Len(schedule) :
                      CallDay(schedule[k])
                          = NthOpenDay(((k - 1) \div request.calls_per_day) + 1)

\* Three leads handed over, two calls a day, a window of one day: the capacity
\* of two is used up and the third lead stays without a call.
C13_Witness ==
    /\ Done("create_fallback_call_schedule")
    /\ result.kind = "returned"
    /\ Len(fb_leads) = 3
    /\ request.calls_per_day = 2
    /\ request.campaign_duration.start_date = request.campaign_duration.end_date
    /\ Len(result.value.call_schedule) = 2

(* C14: a coverage shortfall is never raised: for any list of discovered
   leads, the empty list included, any calls_per_day, any window whose dates
   parse and any avoid_dates, create_fallback_call_schedule returns, and
   coverage_percentage is scheduled calls / discovered leads * 100, below 100
   exactly when some discovered lead has no call. *)
C14_CoverageNeverRaises ==
    (Done("create_fallback_call_schedule") /\ FallbackWindowParses) =>
        /\ result.kind = "returned"
        /\ LET schedule == result.value.call_schedule
               coverage == result.value.schedule_summary.coverage_percentage
               discovered == request.discovered_leads
           IN  /\ coverage = <<100 * Len(schedule), Len(discovered)>>
               /\ (coverage[1] < 100 * coverage[2])
                      <=> (\E i \in 1..Len(discovered) :
                              \A k \in 1..Len(schedule) :
                                  schedule[k].lead_id # discovered[i].lead_id)

-----------------------------------------------------------------------------
(* schedule_content_distribution: the status and the matching *)

(* C15: when the planner call does not fail (it answers with a JSON object),
   schedule_content_distribution reports execution_status "success" if at
   least one timeline slot was matched with a copy and "partial_success" if
   no slot was matched. *)
C15_StatusFollowsMatching ==
    ( /\ Done("schedule_content_distribution")
      /\ data.source = "planner"
      /\ data.is_dict )
        => /\ result.kind = "returned"
           /\ result.value.execution_status
                  = IF Len(content_matching.matched_slots) >= 1
                    THEN "success" ELSE "partial_success"

-----------------------------------------------------------------------------
(* match_content_to_timeline: images per slot, and the two lists *)

(* C16: in every pass of the loop that matches a slot, the images the slot
   gets are at most its platform cap (2 when the platform name contains
   instagram or facebook, else 1): min(cap, number of never-used images) of
   them, all never used, while an image is unused; min(cap, N) of them once
   all N images have been used; none when the pool is empty or absent. *)
C16_ImagesWithinCap ==
    [][ ( /\ Matching
          /\ Len(content_matching'.matched_slots)
                 = Len(content_matching.matched_slots) + 1 )
        => LET slot == request.optimized_timeline[slot_index + 1]
               cap == IF \/ IsSubstring(Spelling["instagram"], Lower(slot.platform))
                         \/ IsSubstring(Spelling["facebook"], Lower(slot.platform))
                      THEN 2 ELSE 1
               pool == AvailableImages(request.generated_images)
               N == Len(pool)
               never_used == {i \in 1..N : pool[i].image_id \notin used_image_ids}
               matched == content_matching'.matched_slots
               got == matched[Len(matched)].assigned_images
           IN  /\ matched[Len(matched)].slot = slot
               /\ Len(got) <= cap
               /\ IF N = 0 THEN got = <<>>
                  ELSE IF never_used # {}
                  THEN /\ Len(got) = Min(cap, Cardinality(never_used))
                       /\ \A j \in 1..Len(got) :
                              \E i \in never_used : got[j] = pool[i]
                  ELSE Len(got) = Min(cap, N) ]_vars

\* Three images on three slots that take two: the first slot got two, the
\* second the one image left, the third two images again, all being used.
C16_Witness ==
    /\ svc = "match_content_to_timeline"
    /\ Len(AvailableImages(request.generated_images)) = 3
    /\ LET ms == content_matching.matched_slots
       IN  /\ Len(ms) = 3
           /\ \A k \in 1..3 : MaxImagesFor(ms[k].slot.platform) = 2
           /\ Len(ms[1].assigned_images) = 2
           /\ Len(ms[2].assigned_images) = 1
           /\ Len(ms[3].assigned_images) = 2

(* C17: match_content_to_timeline partitions the slots it has gone through:
   each is in exactly one of matched_slots and unmatched_slots, in input order
   in both lists; a slot is in matched_slots exactly when a copy was assigned
   to it; copies_used is the number of matched slots. *)
C17_SlotsPartitioned ==
    Matching =>
        LET timeline == request.optimized_timeline
            matched == content_matching.matched_slots
            unmatched == content_matching.unmatched_slots
            \* The input positions of the slots of each list.
            InMatched == {i \in 1..slot_index :
                             \E k \in 1..Len(matched) : matched[k].slot = timeline[i]}
            InUnmatched == {i \in 1..slot_index :
                               \E k \in 1..Len(unmatched) : unmatched[k] = timeline[i]}
            Position(slot) == CHOOSE i \in 1..Len(timeline) : timeline[i] = slot
        IN  /\ InMatched \cup InUnmatched = 1..slot_index
            /\ InMatched \cap InUnmatched = {}
            /\ Len(matched) = Cardinality(InMatched)
            /\ Len(unmatched) = Cardinality(InUnmatched)
            /\ \A k, l \in 1..Len(matched) :
                   k < l => Position(matched[k].slot) < Position(matched[l].slot)
            /\ \A k, l \in 1..Len(unmatched) :
                   k < l => Position(unmatched[k]) < Position(unmatched[l])
            /\ \A k \in 1..Len(matched) :
                   Contains(request.generated_copies, matched[k].assigned_copy)
            /\ \A i \in InUnmatched :
                   CopyDraw(request.generated_copies, timeline[i]).pool = <<>>
            /\ \A i \in InMatched :
                   CopyDraw(request.generated_copies, timeline[i]).pool # <<>>
            /\ content_matching.content_utilization.copies_used = Len(matched)

\* A finished call on four slots with copies at hand: four matched slots.
C17_Witness ==
    /\ Done("match_content_to_timeline")
    /\ Len(request.optimized_timeline) = 4
    /\ Len(result.value.matched_slots) = 4
    /\ result.value.unmatched_slots = <<>>
    /\ result.value.content_utilization.copies_used = 4

-----------------------------------------------------------------------------
(* process_timeline_data applied to its own output *)

(* C18: enrichment is idempotent: for a raw timeline of at least one slot that
   process_timeline_data accepts, applying process_timeline_data, with the
   same request, to its own output gives the same optimized_timeline and the
   same timeline_insights as applying it once. *)
C18_EnrichmentIdempotent ==
    ( /\ svc = "optimize_campaign_timeline"
      /\ data # NoResult
      /\ process_timeline_data(data, request).kind = "returned" )
        => LET once == process_timeline_data(data, request).value
               twice == process_timeline_data(
                            [is_dict |-> TRUE, value |-> once], request)
           IN  /\ Len(once.optimized_timeline) >= 1
               /\ twice.kind = "returned"
               /\ twice.value.optimized_timeline = once.optimized_timeline
               /\ twice.value.timeline_insights = once.timeline_insights

\* The planner's own timeline of two slots, one of them without the optional
\* fields, has been processed and returned.
C18_Witness ==
    /\ Done("optimize_campaign_timeline")
    /\ data.source = "planner"
    /\ result.kind = "returned"
    /\ result.value.execution_status = "success"
    /\ Len(result.value.outputs.optimized_timeline) = 2
    /\ \E i \in 1..2 :
           "priority" \notin DOMAIN data.value.optimized_timeline[i]
    /\ \E i \in 1..2 :
           result.value.outputs.optimized_timeline[i].engagement_score < 10

-----------------------------------------------------------------------------
(* create_fallback_timeline: the slot count *)

(* C19: for a valid request whose bounds are in order, the number of slots
   create_fallback_timeline returns is round(total_days / 7 * posts_per_week)
   clamped to [max(len(key_dates) + 2, 1), min(20, total_days)], with
   posts_per_week = 7 * (min_per_day + max_per_day) / 2, capped at 5 when
   min_per_day >= 1 and at 3 otherwise. *)
C19_RoundedSlotCount ==
    LET mn == request.posting_frequency.min_posts_per_day
        mx == request.posting_frequency.max_posts_per_day
        \* posts_per_week in halves, and total_days / 7 * posts_per_week as
        \* the fraction num / 14
        twice_per_week == Min(7 * (mn + mx), IF mn >= 1 THEN 2 * 5 ELSE 2 * 3)
        num == TotalDays(request) * twice_per_week
        \* round(num / 14), a tie going to the even neighbour
        rounded == IF 2 * (num % 14) > 14
                      \/ (2 * (num % 14) = 14 /\ (num \div 14) % 2 = 1)
                   THEN (num \div 14) + 1 ELSE num \div 14
        lowest == Max(Len(request.key_dates) + 2, 1)
        highest == Min(20, TotalDays(request))
    IN  ( /\ Done("create_fallback_timeline")
          /\ ValidTimelineRequest(request)
          /\ 0 <= mn /\ mn <= mx
          /\ lowest <= highest )
            => /\ result.kind = "returned"
               /\ Len(result.value.optimized_timeline)
                      = Max(lowest, Min(rounded, highest))

(* C20: for a valid request whose window is a single day (start_date =
   end_date), create_fallback_timeline returns exactly len(key_dates) + 2
   slots, whatever the posting frequency, and every slot is scheduled on that
   day. *)
C20_SingleDayWindow ==
    ( /\ Done("create_fallback_timeline")
      /\ ValidTimelineRequest(request)
      /\ request.campaign_duration.start_date = request.campaign_duration.end_date )
        => /\ result.kind = "returned"
           /\ Len(result.value.optimized_timeline) = Len(request.key_dates) + 2
           /\ \A i \in 1..Len(result.value.optimized_timeline) :
                  result.value.optimized_timeline[i].scheduled_date
                      = request.campaign_duration.start_date

\* A one-day window with two key dates and a post every day: four slots.
C20_Witness ==
    /\ Done("create_fallback_timeline")
    /\ ValidTimelineRequest(request)
    /\ request.campaign_duration.start_date = request.campaign_duration.end_date
    /\ request.posting_frequency.min_posts_per_day = 1
    /\ Len(request.key_dates) = 2
    /\ result.kind = "returned"
    /\ Len(result.value.optimized_timeline) = 4

-----------------------------------------------------------------------------
(* create_fallback_timeline: the dates and the priorities of the slots *)

(* C21: for every valid request, every slot create_fallback_timeline returns
   is dated within [start_date, end_date]; the slot at 1-based index i is
   slot i and is dated start_date + floor((i - 1) * total_days / total_slots),
   so the first slot is on start_date. *)
C21_SlotDates ==
    (Done("create_fallback_timeline") /\ ValidTimelineRequest(request)) =>
        /\ result.kind = "returned"
        /\ LET slots == result.value.optimized_timeline
               start == ToOrdinal(request.campaign_duration.start_date)
               end == ToOrdinal(request.campaign_duration.end_date)
           IN  /\ \A i \in 1..Len(slots) :
                      /\ slots[i].timeline_slot_id = SlotName("slot_", i)
                      /\ start <= ReturnedDays[i] /\ ReturnedDays[i] <= end
                      /\ ReturnedDays[i]
                             = start + ((i - 1) * TotalDays(request)) \div Len(slots)
               /\ Len(slots) >= 1 => slots[1].scheduled_date
                                         = request.campaign_duration.start_date

\* A window that crosses the end of the year, with slots in both years.
C21_Witness ==
    /\ Done("create_fallback_timeline") /\ ValidTimelineRequest(request)
    /\ result.kind = "returned"
    /\ request.campaign_duration.start_date = <<2025, 12, 31>>
    /\ \E i \in 1..Len(result.value.optimized_timeline) :
           /\ i >= 3
           /\ result.value.optimized_timeline[i].scheduled_date[1] = 2026
           /\ ReturnedDays[i] > ReturnedDays[i - 1]

(* C22: in every timeline create_fallback_timeline returns, a slot's priority
   is the priority list of the key date whose date equals the slot's
   scheduled_date, the last such key date of key_dates when there are several,
   and ["medium"] when there is none; for a valid request a key date on which
   no evenly spaced slot falls gets no slot. *)
C22_KeyDatePriority ==
    (Done("create_fallback_timeline") /\ result.kind = "returned") =>
        LET slots == result.value.optimized_timeline
            keys == request.key_dates
            n == Len(slots)
            start == ToOrdinal(request.campaign_duration.start_date)
            OnGrid(date) ==
                \E i \in 1..n :
                    start + ((i - 1) * TotalDays(request)) \div n = ToOrdinal(date)
        IN  /\ \A i \in 1..n :
                   LET same == {k \in 1..Len(keys) :
                                   keys[k].date = slots[i].scheduled_date}
                   IN  /\ same = {} => slots[i].priority = <<"medium">>
                       /\ \A k \in same :
                              (\A later \in same : later <= k)
                                  => slots[i].priority = keys[k].priority
            /\ ValidTimelineRequest(request) =>
                   \A k \in 1..Len(keys) :
                       ~OnGrid(keys[k].date) =>
                           \A i \in 1..n : slots[i].scheduled_date # keys[k].date

\* Two key dates on the first day, high registered before low: the slot of that
\* day is low, and a slot of another day is medium.
C22_Witness ==
    /\ Done("create_fallback_timeline") /\ result.kind = "returned"
    /\ Len(request.key_dates) = 2
    /\ request.key_dates[1].date = request.key_dates[2].date
    /\ request.key_dates[1].priority = <<"high">>
    /\ request.key_dates[2].priority = <<"low">>
    /\ \E i \in 1..Len(result.value.optimized_timeline) :
           /\ result.value.optimized_timeline[i].scheduled_date
                  = request.key_dates[2].date
           /\ result.value.optimized_timeline[i].priority = <<"low">>
    /\ \E i \in 1..Len(result.value.optimized_timeline) :
           result.value.optimized_timeline[i].priority = <<"medium">>

-----------------------------------------------------------------------------
(* The campaign phase of the processed slots *)

(* C23: for a slot and a window whose dates parse, campaign_phase is
   "launch_phase" when days-from-start < 30% of the span (end_date -
   start_date).days, "growth_phase" when < 70% of it, "conclusion_phase"
   otherwise; the phase never moves back as the date advances; a slot on the
   day of a single-day window is in conclusion_phase. *)
C23_CampaignPhase ==
    ( /\ Done("optimize_campaign_timeline")
      /\ result.kind = "returned"
      /\ result.value.execution_status = "success"
      /\ WellFormed(request.campaign_duration.start_date)
      /\ WellFormed(request.campaign_duration.end_date) )
        => LET slots == result.value.outputs.optimized_timeline
               start == ToOrdinal(request.campaign_duration.start_date)
               end == ToOrdinal(request.campaign_duration.end_date)
               span == end - start
               Rank(phase) == CASE phase = "launch_phase" -> 1
                                [] phase = "growth_phase" -> 2
                                [] phase = "conclusion_phase" -> 3
           IN  \A i \in 1..Len(slots) :
                   WellFormed(slots[i].scheduled_date) =>
                       LET day == ToOrdinal(slots[i].scheduled_date)
                           days_from_start == day - start
                       IN  /\ slots[i].campaign_phase
                                  = IF 10 * days_from_start < 3 * span
                                    THEN "launch_phase"
                                    ELSE IF 10 * days_from_start < 7 * span
                                    THEN "growth_phase"
                                    ELSE "conclusion_phase"
                           /\ \A later \in day..(Max(day, end) + 2) :
                                  Rank(determine_campaign_phase(FromOrdinal(later),
                                                                request))
                                      >= Rank(slots[i].campaign_phase)
                           /\ (span = 0 /\ day = start)
                                  => slots[i].campaign_phase = "conclusion_phase"

\* A processed timeline that shows the three phases in date order.
C23_Witness ==
    /\ Done("optimize_campaign_timeline")
    /\ result.kind = "returned"
    /\ result.value.execution_status = "success"
    /\ LET slots == result.value.outputs.optimized_timeline
       IN  \E i, j, k \in 1..Len(slots) :
               /\ i < j /\ j < k
               /\ slots[i].campaign_phase = "launch_phase"
               /\ slots[j].campaign_phase = "growth_phase"
               /\ slots[k].campaign_phase = "conclusion_phase"

-----------------------------------------------------------------------------
(* match_content_to_timeline: how often each image is assigned *)

(* C24: with images of distinct ids and a non-empty copy list, once every
   image of the pool has been used, the numbers of times any two images of
   the pool have been assigned differ by at most one, after any number of
   further slots and for any mix of platforms. *)
C24_FairRoundRobin ==
    ( /\ svc = "match_content_to_timeline"
      /\ DistinctIds(AvailableImages(request.generated_images))
      /\ request.generated_copies # <<>>
      /\ PoolIds \subseteq used_image_ids )
        => LET ms == content_matching.matched_slots
               images == AvailableImages(request.generated_images)
               Uses(img) ==
                   Cardinality({p \in (1..Len(ms)) \X (1..2) :
                                   /\ p[2] <= Len(ms[p[1]].assigned_images)
                                   /\ ms[p[1]].assigned_images[p[2]] = img})
           IN  \A a, b \in 1..Len(images) :
                   Uses(images[a]) - Uses(images[b]) <= 1

-----------------------------------------------------------------------------
(* schedule_content_distribution: the schedule of the fallback builder *)

(* C25: whenever schedule_content_distribution answers with the schedule of
   create_fallback_schedule, the planner's text being unparseable or the
   planner call having raised, the distribution schedule holds exactly one
   item per matched slot, in slot order, with ids post_001, post_002, ... and
   with scheduled_datetime, copy and asset ids and urls of that slot's
   match. *)
C25_OneItemPerMatchedSlot ==
    ( /\ Done("schedule_content_distribution")
      /\ result.kind = "returned"
      /\ PlannerUnavailable(planner_response)
      /\ data.source = "fallback" )
        => LET schedule == result.value.outputs.distribution_schedule
               matched == content_matching.matched_slots
           IN  /\ Len(schedule) = Len(matched)
               /\ \A i \in 1..Len(schedule) :
                      /\ schedule[i].schedule_item_id = SlotName("post_", i)
                      /\ schedule[i].scheduled_datetime
                             = <<matched[i].slot.scheduled_date,
                                 matched[i].slot.optimal_time>>
                      /\ schedule[i].content_package.copy_id
                             = matched[i].assigned_copy.copy_id
                      /\ schedule[i].content_package.asset_ids
                             = [j \in 1..Len(matched[i].assigned_images) |->
                                   matched[i].assigned_images[j].image_id]
                      /\ schedule[i].content_package.asset_urls
                             = [j \in 1..Len(matched[i].assigned_images) |->
                                   matched[i].assigned_images[j].image_url]

-----------------------------------------------------------------------------
(* create_fallback_call_schedule: the order of the calls, and the end of the
   loop *)

(* C26: the call schedule create_fallback_call_schedule builds is a prefix of
   the lead list it was given: call k is for lead k of the list, so each lead
   appears at most once and in the given order; the call dates do not
   decrease along the schedule; the schedule_ids are call_001, call_002, ...
   without gap or repeat. *)
C26_SchedulePrefixOfLeads ==
    svc = "create_fallback_call_schedule" =>
        /\ Len(call_schedule) <= Len(fb_leads)
        /\ \A k \in 1..Len(call_schedule) :
               /\ call_schedule[k].lead_id = fb_leads[k].lead_id
               /\ call_schedule[k].schedule_id = SlotName("call_", k)
        /\ \A k, l \in 1..Len(call_schedule) :
               k < l => /\ CallDay(call_schedule[k]) <= CallDay(call_schedule[l])
                        /\ call_schedule[k].lead_id # call_schedule[l].lead_id
        /\ (pc = "done" /\ result.kind = "returned")
               => result.value.call_schedule = call_schedule

\* Three leads, handed over in an order that is not the discovered one, with
\* calls on more than one day.
C26_Witness ==
    /\ Done("create_fallback_call_schedule")
    /\ result.kind = "returned"
    /\ Len(result.value.call_schedule) = 3
    /\ fb_leads # request.discovered_leads
    /\ Len(fb_leads) = 3
    /\ CallDay(call_schedule[1]) < CallDay(call_schedule[3])

-----------------------------------------------------------------------------
(* match_content_to_timeline: all slots matched, or none *)

(* C27: copy matching is all or nothing: with a non-empty generated_copies
   every slot gone through is in matched_slots, with an empty one every slot
   is in unmatched_slots; matched_slots and unmatched_slots are never both
   non-empty. *)
C27_AllOrNothing ==
    Matching =>
        /\ request.generated_copies # <<>>
               => /\ Len(content_matching.matched_slots) = slot_index
                  /\ content_matching.unmatched_slots = <<>>
        /\ request.generated_copies = <<>>
               => /\ Len(content_matching.unmatched_slots) = slot_index
                  /\ content_matching.matched_slots = <<>>
        /\ ~ ( /\ content_matching.matched_slots # <<>>
               /\ content_matching.unmatched_slots # <<>> )

\* One copy that is in no typed pool, slots of a typed and of an untyped
\* content type: all of them got the copy from the general pool.
C27_Witness ==
    /\ Done("match_content_to_timeline")
    /\ Len(request.generated_copies) = 1
    /\ Len(request.optimized_timeline) >= 2
    /\ Len(result.value.matched_slots) = Len(request.optimized_timeline)
    /\ \A k \in 1..Len(result.value.matched_slots) :
           result.value.matched_slots[k].matching_score \in {2, 5}
    /\ \E k \in 1..Len(result.value.matched_slots) :
           result.value.matched_slots[k].slot.content_type = "ad_copy"
    /\ \E k \in 1..Len(result.value.matched_slots) :
           result.value.matched_slots[k].slot.content_type = "video"

-----------------------------------------------------------------------------
(* optimize_campaign_timeline: no "success" without slots *)

(* C28: optimize_campaign_timeline never returns a "success" response with
   zero slots; when the planner answers with a JSON object whose
   optimized_timeline is empty or missing, a returned response is the
   fallback timeline with execution_status "partial_success", and for a
   valid request the response is returned. *)
C28_NoSuccessWithoutSlots ==
    Done("optimize_campaign_timeline") =>
        /\ (result.kind = "returned" /\ result.value.execution_status = "success")
               => Len(result.value.outputs.optimized_timeline) >= 1
        /\ ( /\ planner_response.kind = "returned"
             /\ planner_response.value.json
             /\ planner_response.value.is_dict
             /\ Get(planner_response.value.value, "optimized_timeline", <<>>) = <<>> )
               => /\ ValidTimelineRequest(request) => result.kind = "returned"
                  /\ result.kind = "returned"
                         => /\ result.value.execution_status = "partial_success"
                            /\ create_fallback_timeline(request).kind = "returned"
                            /\ result.value.outputs
                                   = create_fallback_timeline(request).value

\* The planner's JSON object has no optimized_timeline, and the caller got the
\* fallback timeline.
C28_Witness ==
    /\ Done("optimize_campaign_timeline")
    /\ planner_response.kind = "returned"
    /\ planner_response.value.json
    /\ planner_response.value.is_dict
    /\ "optimized_timeline" \notin DOMAIN planner_response.value.value
    /\ result.kind = "returned"
    /\ result.value.execution_status = "partial_success"
    /\ Len(result.value.outputs.optimized_timeline) >= 2

-----------------------------------------------------------------------------
(* schedule_outreach_calls: the only way out is the exception handler *)

(* C29: schedule_outreach_calls never returns execution_status "success": for
   every request whose window dates parse and every planner behaviour the
   call ends in the exception handler, which returns "partial_success" with
   the fallback schedule built from the raw discovered_leads list. *)
C29_AlwaysPartialSuccess ==
    (Done("schedule_outreach_calls") /\ FallbackWindowParses) =>
        /\ result.kind = "returned"
        /\ result.value.execution_status = "partial_success"
        /\ fb_site = "except"
        /\ fb_leads = request.discovered_leads
        /\ result.value.outputs.call_schedule = call_schedule

\* The direct call under weak fairness, for one set of prioritization criteria:
\* a loop pass or a return that can be taken is taken.
InitFairFallbackCalls ==
    /\ InitFallbackCalls
    /\ request.prioritization_criteria.qualification_score_threshold = 60
    /\ request.prioritization_criteria.priority_segments = <<"Technology", "Finance">>

FairSpecFallbackCalls ==
    /\ InitFairFallbackCalls
    /\ [][NextFallbackCalls]_vars
    /\ WF_vars(NextFallbackCalls)

(* C30: create_fallback_call_schedule terminates for every input, with
   calls_per_day <= 0, with a window whose every date is in avoid_dates and
   with more leads than the window holds: every loop pass advances
   current_date by one day, the call ends, and with calls_per_day <= 0 a
   returned schedule is empty. *)
C30_Terminates ==
    /\ <>(pc = "done")
    /\ [][ (pc = "fallback" /\ pc' = "fallback")
               => current_date' = current_date + 1 ]_vars
    /\ []( ( /\ Done("create_fallback_call_schedule")
             /\ result.kind = "returned"
             /\ request.calls_per_day <= 0 )
               => result.value.call_schedule = <<>> )

\* The only date of the window is avoided: the loop went past it and the call
\* returned an empty schedule, leads being left.
C30_Witness ==
    /\ Done("create_fallback_call_schedule")
    /\ result.kind = "returned"
    /\ request.campaign_duration.start_date = request.campaign_duration.end_date
    /\ Contains(request.call_window_preferences.avoid_dates,
                request.campaign_duration.start_date)
    /\ request.calls_per_day >= 1
    /\ Len(fb_leads) >= 2
    /\ current_date > ToOrdinal(request.campaign_duration.end_date)
    /\ result.value.call_schedule = <<>>

=============================================================================
